---- MODULE Spec2Model ----
(***************************************************************************)
(* Model of the tuple database client layer: TupleDatabaseClient,          *)
(* TupleTransaction, TupleTransactionSubspace and transactionalQuery       *)
(* (src/src/database/sync/TupleDatabaseClient.ts), on top of the engine,   *)
(* the concurrency log, the reactivity tracker, the storage and the sorted *)
(* array helpers, which are modelled from the specification.               *)
(***************************************************************************)
EXTENDS Integers, Sequences, FiniteSets, TLC

\* ------------------------------------------------------------------------
\* Bounds of the model
\* ------------------------------------------------------------------------

\* number of operations in one behaviour
MaxSteps == 5

\* number of transaction objects that can be opened
NumTx == 2

\* number of subscriptions that can be registered
NumListeners == 2

\* ------------------------------------------------------------------------
\* Values, tuples, optional fields
\* ------------------------------------------------------------------------

\* the two sentinels; the ordinary tuple elements are the numbers between
MIN == 0

MAX == 3

Elems == {1, 2}

\* the values stored under a key
Vals == {1, 2}

\* an optional field is a sequence of length 0 (absent) or 1 (present)
None == <<>>

Some(x) == <<x>>

IsSome(o) == Len(o) = 1

\* the empty tuple (distinct in use from None: it is always wrapped in Some)
Empty == <<>>

\* element comparator: numbers numerically, MIN below and MAX above all
compare(a, b) == IF a < b THEN 0 - 1 ELSE IF a > b THEN 1 ELSE 0

Min2(a, b) == IF a < b THEN a ELSE b

\* first index at which the two tuples differ, or 0 when one is a prefix
FirstDiff(a, b) ==
  LET idx == {i \in 1..Min2(Len(a), Len(b)) : a[i] # b[i]}
  IN IF idx = {} THEN 0 ELSE CHOOSE i \in idx : \A j \in idx : i <= j

\* tuple comparator: element-wise, a strict prefix is less
compareTuple(a, b) ==
  LET d == FirstDiff(a, b)
  IN IF d # 0 THEN compare(a[d], b[d]) ELSE compare(Len(a), Len(b))

\* P is a prefix of t (not necessarily strict)
IsPrefixOf(P, t) == Len(P) <= Len(t) /\ SubSeq(t, 1, Len(P)) = P

\* ------------------------------------------------------------------------
\* Scan arguments and bounds
\* ------------------------------------------------------------------------

NoArgs == [prefix |-> None, gt |-> None, gte |-> None, lt |-> None,
           lte |-> None, limit |-> None]

\* the key lies within gt/gte/lt/lte and, when prefix is given, has it as a
\* strict prefix
isTupleWithinBounds(t, args) ==
  /\ IsSome(args.gt)  => compareTuple(t, args.gt[1]) > 0
  /\ IsSome(args.gte) => compareTuple(t, args.gte[1]) >= 0
  /\ IsSome(args.lt)  => compareTuple(t, args.lt[1]) < 0
  /\ IsSome(args.lte) => compareTuple(t, args.lte[1]) <= 0
  /\ IsSome(args.prefix) =>
       IsPrefixOf(args.prefix[1], t) /\ Len(t) > Len(args.prefix[1])

\* the first n elements of a sequence
Take(s, n) == SubSeq(s, 1, Min2(n, Len(s)))

ApplyLimit(s, limit) == IF IsSome(limit) THEN Take(s, limit[1]) ELSE s

\* ------------------------------------------------------------------------
\* Sorted arrays of tuples (helpers/sortedTupleArray) and of pairs
\* (helpers/sortedTupleValuePairs)
\* ------------------------------------------------------------------------

\* binary search over a sorted array of keys: found i or closest i
SearchFound(keys, t) == {i \in 1..Len(keys) : compareTuple(keys[i], t) = 0}

SearchClosest(keys, t) ==
  Cardinality({i \in 1..Len(keys) : compareTuple(keys[i], t) < 0}) + 1

InsertAt(s, i, x) == SubSeq(s, 1, i - 1) \o <<x>> \o SubSeq(s, i, Len(s))

RemoveAt(s, i) == SubSeq(s, 1, i - 1) \o SubSeq(s, i + 1, Len(s))

KeysOf(pairs) == [i \in 1..Len(pairs) |-> pairs[i].key]

tSet(tuples, t) ==
  IF SearchFound(tuples, t) # {} THEN tuples
  ELSE InsertAt(tuples, SearchClosest(tuples, t), t)

tRemove(tuples, t) ==
  LET f == SearchFound(tuples, t)
  IN IF f = {} THEN tuples ELSE RemoveAt(tuples, CHOOSE i \in f : TRUE)

tExists(tuples, t) == SearchFound(tuples, t) # {}

tScan(tuples, args) ==
  ApplyLimit(SelectSeq(tuples, LAMBDA t : isTupleWithinBounds(t, args)),
             args.limit)

tvSet(pairs, t, v) ==
  LET f == SearchFound(KeysOf(pairs), t)
  IN IF f # {}
     THEN [pairs EXCEPT ![CHOOSE i \in f : TRUE] = [key |-> t, value |-> v]]
     ELSE InsertAt(pairs, SearchClosest(KeysOf(pairs), t),
                   [key |-> t, value |-> v])

tvRemove(pairs, t) ==
  LET f == SearchFound(KeysOf(pairs), t)
  IN IF f = {} THEN pairs ELSE RemoveAt(pairs, CHOOSE i \in f : TRUE)

tvExists(pairs, t) == SearchFound(KeysOf(pairs), t) # {}

\* the value stored under t, as an optional
tvGet(pairs, t) ==
  LET f == SearchFound(KeysOf(pairs), t)
  IN IF f = {} THEN None ELSE Some(pairs[CHOOSE i \in f : TRUE].value)

tvScan(pairs, args) ==
  ApplyLimit(SelectSeq(pairs, LAMBDA p : isTupleWithinBounds(p.key, args)),
             args.limit)

\* ------------------------------------------------------------------------
\* Subspace helpers (helpers/subspaceHelpers)
\* ------------------------------------------------------------------------

prependPrefixToTuple(P, t) == P \o t

removePrefixFromTuple(P, t) == SubSeq(t, Len(P) + 1, Len(t))

PrependOpt(P, o) == IF IsSome(o) THEN Some(P \o o[1]) ELSE None

\* the prefix of the arguments; arguments without one have the empty prefix
PrefixOf(args) == IF IsSome(args.prefix) THEN args.prefix[1] ELSE Empty

\* no bound is given
OnlyPrefix(args) ==
  /\ ~IsSome(args.gt) /\ ~IsSome(args.gte)
  /\ ~IsSome(args.lt) /\ ~IsSome(args.lte)

\* P is prepended to the prefix and to each bound; a prefix alone becomes
\* the bounds that hold the keys beginning with it
normalizeSubspaceScanArgs(P, args) ==
  IF OnlyPrefix(args)
  THEN [prefix |-> None, gt |-> None, lt |-> None,
        gte |-> Some(P \o PrefixOf(args) \o <<MIN>>),
        lte |-> Some(P \o PrefixOf(args) \o <<MAX>>),
        limit |-> args.limit]
  ELSE [prefix |-> Some(P \o PrefixOf(args)),
        gt |-> PrependOpt(P, args.gt), gte |-> PrependOpt(P, args.gte),
        lt |-> PrependOpt(P, args.lt), lte |-> PrependOpt(P, args.lte),
        limit |-> args.limit]

removePrefixFromTupleValuePairs(P, pairs) ==
  [i \in 1..Len(pairs) |->
     [key |-> removePrefixFromTuple(P, pairs[i].key),
      value |-> pairs[i].value]]

prependPrefixToWrites(P, w) ==
  [set |-> [i \in 1..Len(w.set) |->
              [key |-> P \o w.set[i].key, value |-> w.set[i].value]],
   remove |-> [i \in 1..Len(w.remove) |-> P \o w.remove[i]]]

removePrefixFromWrites(P, w) ==
  [set |-> removePrefixFromTupleValuePairs(P, w.set),
   remove |-> [i \in 1..Len(w.remove) |->
                 removePrefixFromTuple(P, w.remove[i])]]

NoWrites == [set |-> <<>>, remove |-> <<>>]

\* ------------------------------------------------------------------------
\* State
\* ------------------------------------------------------------------------

VARIABLES
  storage,    \* the storage: sorted array of [key, value] pairs
  log,        \* the concurrency log: sequence of read and write entries
  listeners,  \* the listeners of the reactivity tracker
  tx,         \* the transaction objects, by transaction id
  views,      \* the transaction subspace views that have been created
  query,      \* the running transactionalQuery call
  last,       \* the last operation: what was called and what it returned
  hist,       \* history of each transaction: reads, buffered keys, outcome
  applied,    \* history of the database: what the successful commits wrote
  steps,      \* number of operations so far
  pending     \* the suspended calls of the asynchronous client

vars == <<storage, log, listeners, tx, views, query, last, hist, applied,
          steps, pending>>

TxIds == 1..NumTx

ListenerIds == 1..NumListeners

\* ------------------------------------------------------------------------
\* Storage (storage adapter contract)
\* ------------------------------------------------------------------------

storageScan(pairs, args) == tvScan(pairs, args)

RECURSIVE ApplyRemoves(_, _)
ApplyRemoves(pairs, removes) ==
  IF removes = <<>> THEN pairs
  ELSE ApplyRemoves(tvRemove(pairs, Head(removes)), Tail(removes))

RECURSIVE ApplySets(_, _)
ApplySets(pairs, sets) ==
  IF sets = <<>> THEN pairs
  ELSE ApplySets(tvSet(pairs, Head(sets).key, Head(sets).value), Tail(sets))

\* a commit that adds the pairs it sets without looking for their keys
storageCommitAppends(pairs, writes) ==
  ApplyRemoves(pairs, writes.remove) \o writes.set

storageCommit(pairs, writes) ==
  ApplySets(ApplyRemoves(pairs, writes.remove), writes.set)

\* ------------------------------------------------------------------------
\* Concurrency log
\* ------------------------------------------------------------------------

ReadEntry(txId, bounds) ==
  [txId |-> txId, type |-> "read", bounds |-> bounds, tuple |-> Empty]

WriteEntry(txId, t) ==
  [txId |-> txId, type |-> "write", bounds |-> NoArgs, tuple |-> t]

logRead(l, txId, bounds) == Append(l, ReadEntry(txId, bounds))

\* a write is recorded only when a read in the log covers the tuple
logWrite(l, txId, t) ==
  IF \E i \in 1..Len(l) :
       l[i].type = "read" /\ isTupleWithinBounds(t, l[i].bounds)
  THEN Append(l, WriteEntry(txId, t))
  ELSE l

RECURSIVE logWriteAll(_, _, _)
logWriteAll(l, txId, tuples) ==
  IF tuples = <<>> THEN l
  ELSE logWriteAll(logWrite(l, txId, Head(tuples)), txId, Tail(tuples))

\* a write of any transaction, the committing one included, logged after a
\* read of txId that covers it
logConflictOwnWrites(l, txId) ==
  \E i, j \in 1..Len(l) :
    /\ i < j
    /\ l[i].type = "read" /\ l[i].txId = txId
    /\ l[j].type = "write"
    /\ isTupleWithinBounds(l[j].tuple, l[i].bounds)

\* a write of another transaction within some read of txId, logged after
\* some read of txId
logConflictAnyRead(l, txId) ==
  \E i, j, k \in 1..Len(l) :
    /\ i < j
    /\ l[i].type = "read" /\ l[i].txId = txId
    /\ l[k].type = "read" /\ l[k].txId = txId
    /\ l[j].type = "write" /\ l[j].txId # txId
    /\ isTupleWithinBounds(l[j].tuple, l[k].bounds)

\* a write of another transaction, logged after a read of txId that covers it
logConflict(l, txId) ==
  \E i, j \in 1..Len(l) :
    /\ i < j
    /\ l[i].type = "read" /\ l[i].txId = txId
    /\ l[j].type = "write" /\ l[j].txId # txId
    /\ isTupleWithinBounds(l[j].tuple, l[i].bounds)

cleanupReads(l, txId) ==
  SelectSeq(l, LAMBDA e : ~(e.type = "read" /\ e.txId = txId))

\* the write entries older than every read entry are of no use any more
FirstRead(l) ==
  LET r == {i \in 1..Len(l) : l[i].type = "read"}
  IN IF r = {} THEN Len(l) + 1 ELSE CHOOSE i \in r : \A j \in r : i <= j

cleanupWrites(l) == SubSeq(l, FirstRead(l), Len(l))

\* the log after a commit(txId) that found no conflict, and after cancel(txId)
logCommit(l, txId) == cleanupWrites(cleanupReads(l, txId))

logCancel(l, txId) == cleanupWrites(cleanupReads(l, txId))

\* ------------------------------------------------------------------------
\* Reactivity tracker
\* ------------------------------------------------------------------------

LowerBound(b) == IF IsSome(b.gte) THEN b.gte ELSE b.gt

UpperBound(b) == IF IsSome(b.lte) THEN b.lte ELSE b.lt

\* the longest common prefix of two tuples
CommonPrefix(a, b) ==
  LET d == FirstDiff(a, b)
  IN IF d = 0 THEN Take(a, Min2(Len(a), Len(b))) ELSE Take(a, d - 1)

\* the tuple under which a listener is stored
boundsPrefix(b) ==
  IF IsSome(b.prefix) THEN b.prefix[1]
  ELSE IF IsSome(LowerBound(b)) /\ IsSome(UpperBound(b))
       THEN CommonPrefix(LowerBound(b)[1], UpperBound(b)[1])
       ELSE Empty

\* the listeners stored under (prefix, *) whose bounds hold the key
ListenersAt(ls, prefix, key) ==
  {l \in ls : l.prefix = prefix /\ isTupleWithinBounds(key, l.bounds)}

\* the walk over every prefix of the key, from the longest to the empty one
ListenersForKey(ls, key) ==
  UNION {ListenersAt(ls, Take(key, n), key) : n \in 0..Len(key)}

\* the bucket of one listener: the writes of the batch it is notified of
Bucket(ls, l, writes) ==
  [set |-> SelectSeq(writes.set, LAMBDA p : l \in ListenersForKey(ls, p.key)),
   remove |-> SelectSeq(writes.remove,
                        LAMBDA t : l \in ListenersForKey(ls, t))]

\* the callbacks to invoke, each with its bucket: listener id -> the batches
\* its callback receives for this commit (the client's callback strips the
\* subspace prefix before it calls the user's callback)
\* a subscription that hands the engine's batch to the callback as it is
ClientSubscribeCallbackRaw(P, write) == write

\* what the subscription of a client with prefix P hands to its callback
ClientSubscribeCallback(P, write) == removePrefixFromWrites(P, write)

computeReactivityEmits(ls, writes) ==
  [id \in ListenerIds |->
     IF \E l \in ls : l.id = id /\ Bucket(ls, l, writes) # NoWrites
     THEN LET l == CHOOSE x \in ls : x.id = id
          IN <<ClientSubscribeCallback(l.subspacePrefix,
                                       Bucket(ls, l, writes))>>
     ELSE <<>>]

NoEmits == [id \in ListenerIds |-> <<>>]

\* ------------------------------------------------------------------------
\* TupleDatabase engine: scan, commit, cancel
\* ------------------------------------------------------------------------

WriteKeys(writes) == KeysOf(writes.set) \o writes.remove

\* the log once the writes of the batch are recorded for txId
engineLogWrites(l, writes, txId) ==
  IF IsSome(txId) THEN logWriteAll(l, txId[1], WriteKeys(writes)) ELSE l

\* commit(writes, txId) is rejected with ReadWriteConflictError
engineConflict(l, writes, txId) ==
  IsSome(txId) /\ logConflict(engineLogWrites(l, writes, txId), txId[1])

\* the log after commit(writes, txId)
engineCommitLog(l, writes, txId) ==
  IF ~IsSome(txId) THEN l
  ELSE IF engineConflict(l, writes, txId)
       THEN engineLogWrites(l, writes, txId)
       ELSE logCommit(engineLogWrites(l, writes, txId), txId[1])

\* an engine that writes to the storage before it checks for conflicts
engineCommitStorageFirst(pairs, l, writes, txId) == storageCommit(pairs, writes)

\* the storage after commit(writes, txId)
engineCommitStorage(pairs, l, writes, txId) ==
  IF engineConflict(l, writes, txId) THEN pairs
  ELSE storageCommit(pairs, writes)

\* the storage at the moment commit calls reactivity.emit: storage.commit
\* has returned
engineEmitBeforeStorage(before, after) == before

engineEmitStorage(before, after) == after

\* the callbacks invoked by commit(writes, txId)
engineCommitEmits(ls, l, writes, txId) ==
  IF engineConflict(l, writes, txId) THEN NoEmits
  ELSE computeReactivityEmits(ls, writes)

\* the log after scan(args, txId)
engineScanLog(l, args, txId) ==
  IF IsSome(txId) THEN logRead(l, txId[1], args) ELSE l

\* ------------------------------------------------------------------------
\* Inputs
\* ------------------------------------------------------------------------

\* the keys that are ever written, as stored (with every prefix prepended)
AllKeys == {<<1>>, <<1, 1>>, <<2>>}

\* the subspace prefixes of the clients: the root client and one subspace
ClientPrefixes == {Empty, <<1>>}

\* the prefixes under which a key exists
KeyPrefixes == {Take(k, n) : k \in AllKeys, n \in 0..2}

\* the tuples a caller with prefix P passes so that the stored key is known:
\* the keys that have P as a strict prefix, without it
UserKeys(P) ==
  {removePrefixFromTuple(P, k) :
     k \in {x \in AllKeys : IsPrefixOf(P, x) /\ Len(x) > Len(P)}}

Bnd(gt, gte, lt, lte) ==
  [prefix |-> None, gt |-> gt, gte |-> gte, lt |-> lt, lte |-> lte,
   limit |-> None]

\* the scan arguments callers pass, without a limit
BoundsSet ==
  { NoArgs,
    [NoArgs EXCEPT !.prefix = Some(<<1>>)],
    [NoArgs EXCEPT !.prefix = Some(Empty)],
    Bnd(Some(<<1>>), None, None, Some(<<1, MAX>>)),
    Bnd(None, Some(<<1>>), None, Some(<<1, 1>>)),
    Bnd(None, Some(Empty), Some(<<2>>), None),
    Bnd(None, Some(<<2>>), None, None) }

Limits == {None, Some(1)}

ScanArgsSet == {[b EXCEPT !.limit = l] : b \in BoundsSet, l \in Limits}

HasLower(args) == IsSome(args.gt) \/ IsSome(args.gte)

HasUpper(args) == IsSome(args.lt) \/ IsSome(args.lte)

\* under a non-empty subspace prefix callers pass a prefix or both bounds, so
\* that every key of the result begins with the subspace prefix
ArgsFor(P) ==
  {a \in ScanArgsSet :
     P = Empty \/ OnlyPrefix(a) \/ (HasLower(a) /\ HasUpper(a))}

\* ------------------------------------------------------------------------
\* TupleTransaction: the object and its pure parts
\* ------------------------------------------------------------------------

NoError == ""

\* a scan that runs the conflict check of the reading transaction
engineScanErrorEager(l, args, txId) ==
  IF IsSome(txId) /\ logConflict(l, txId[1])
  THEN "ReadWriteConflictError" ELSE NoError

\* what scan(args, txId) throws: it logs the read and delegates to the
\* storage, the log is not checked
engineScanError(l, args, txId) == NoError

\* a transaction object that has not been created yet
NoTx == [open |-> FALSE, subspacePrefix |-> Empty, committed |-> FALSE,
         canceled |-> FALSE, writes |-> NoWrites]

NewTx(P) == [NoTx EXCEPT !.open = TRUE, !.subspacePrefix = P]

\* the error checkActive throws, NoError when the transaction is active
checkActive(t) ==
  IF t.committed THEN "Transaction already committed"
  ELSE IF t.canceled THEN "Transaction already canceled"
  ELSE NoError

RECURSIVE OverlaySets(_, _, _)
OverlaySets(result, P, sets) ==
  IF sets = <<>> THEN result
  ELSE OverlaySets(tvSet(result, removePrefixFromTuple(P, Head(sets).key),
                         Head(sets).value), P, Tail(sets))

RECURSIVE OverlayRemoves(_, _, _)
OverlayRemoves(result, P, removes) ==
  IF removes = <<>> THEN result
  ELSE OverlayRemoves(tvRemove(result, removePrefixFromTuple(P, Head(removes))),
                      P, Tail(removes))

\* what scan(args) returns on an active transaction, given the storage
TransactionScan(pairs, t, args) ==
  LET storageScanArgs == normalizeSubspaceScanArgs(t.subspacePrefix, args)
      result == removePrefixFromTupleValuePairs(
                  t.subspacePrefix, storageScan(pairs, storageScanArgs))
      sets == tvScan(t.writes.set, storageScanArgs)
      removes == tScan(t.writes.remove, storageScanArgs)
  IN OverlayRemoves(OverlaySets(result, t.subspacePrefix, sets),
                    t.subspacePrefix, removes)

PointArgs(fullTuple) == Bnd(None, Some(fullTuple), None, Some(fullTuple))

\* a get that calls the engine whatever the buffer holds
TransactionReadsEngineAlways(t, fullTuple) == TRUE

\* get(tuple) on an active transaction makes an engine call
TransactionReadsEngine(t, fullTuple) ==
  ~tvExists(t.writes.set, fullTuple) /\ ~tExists(t.writes.remove, fullTuple)

\* a get that does not look at the buffered removes
TransactionGetNoRemove(pairs, t, fullTuple) ==
  IF tvExists(t.writes.set, fullTuple) THEN tvGet(t.writes.set, fullTuple)
  ELSE LET items == storageScan(pairs, PointArgs(fullTuple))
       IN IF Len(items) = 0 THEN None ELSE Some(items[1].value)

\* what get(tuple) returns on an active transaction: None is undefined
TransactionGet(pairs, t, fullTuple) ==
  IF tvExists(t.writes.set, fullTuple) THEN tvGet(t.writes.set, fullTuple)
  ELSE IF tExists(t.writes.remove, fullTuple) THEN None
  ELSE LET items == storageScan(pairs, PointArgs(fullTuple))
       IN IF Len(items) = 0 THEN None ELSE Some(items[1].value)

\* get throws when the single-point scan returns more than one pair
TransactionGetError(pairs, t, fullTuple) ==
  IF /\ TransactionReadsEngine(t, fullTuple)
     /\ Len(storageScan(pairs, PointArgs(fullTuple))) > 1
  THEN "Get expects only one value." ELSE NoError

TransactionExists(pairs, t, fullTuple) ==
  IF tvExists(t.writes.set, fullTuple) THEN TRUE
  ELSE IF tExists(t.writes.remove, fullTuple) THEN FALSE
  ELSE Len(storageScan(pairs, PointArgs(fullTuple))) >= 1

\* the buffer after set(tuple, value) and after remove(tuple)
\* a set that leaves a pending remove of the tuple in the buffer
TransactionSetKeepsRemove(w, fullTuple, value) ==
  [set |-> tvSet(w.set, fullTuple, value), remove |-> w.remove]

TransactionSet(w, fullTuple, value) ==
  [set |-> tvSet(w.set, fullTuple, value),
   remove |-> tRemove(w.remove, fullTuple)]

TransactionRemove(w, fullTuple) ==
  [set |-> tvRemove(w.set, fullTuple),
   remove |-> tSet(w.remove, fullTuple)]

RECURSIVE WriteRemoves(_, _, _)
WriteRemoves(w, P, removes) ==
  IF removes = <<>> THEN w
  ELSE WriteRemoves(TransactionRemove(w, P \o Head(removes)), P, Tail(removes))

RECURSIVE WriteSets(_, _, _)
WriteSets(w, P, sets) ==
  IF sets = <<>> THEN w
  ELSE WriteSets(TransactionSet(w, P \o Head(sets).key, Head(sets).value),
                 P, Tail(sets))

\* the buffer after write(writes): the removes, then the sets
TransactionWrite(w, P, writes) ==
  WriteSets(WriteRemoves(w, P, writes.remove), P, writes.set)

\* ------------------------------------------------------------------------
\* Initial state
\* ------------------------------------------------------------------------

NoListener == [state |-> "none", prefix |-> Empty, bounds |-> NoArgs,
               subspacePrefix |-> Empty, args |-> NoArgs, invoked |-> FALSE]

\* the listeners that are registered, as the tracker stores them
Registered(ls) ==
  {[id |-> i, prefix |-> ls[i].prefix, bounds |-> ls[i].bounds,
    subspacePrefix |-> ls[i].subspacePrefix] :
     i \in {j \in ListenerIds : ls[j].state = "on"}}

\* what a call finds when it starts: the storage, the log, the transactions
NoSnap == [storage |-> <<>>, log |-> <<>>, tx |-> <<>>]

\* the record of the last operation
NoLast ==
  [op |-> "init", tx |-> 0, view |-> FALSE, prefix |-> Empty,
   tuple |-> Empty, args |-> NoArgs, txId |-> None, writes |-> NoWrites,
   result |-> <<>>, error |-> NoError, engineCalls |-> 0,
   closedBefore |-> FALSE, invalidBefore |-> FALSE, emits |-> NoEmits,
   listener |-> 0, async |-> FALSE, value |-> 0, at |-> NoSnap,
   served |-> <<>>]

\* the history of a transaction id: the bounds it has read through the engine
\* since it began, whether another transaction has since committed a write
\* into one of them, the last buffered operation on each key, and whether the
\* engine has applied its commit; and every bounds it has ever read
NoHist == [reads |-> {}, invalid |-> FALSE,
           buf |-> [k \in AllKeys |-> <<>>], engineOk |-> FALSE,
           ranges |-> {}, closes |-> 0]

\* the history after the asynchronous engine has served a commit or a cancel
\* of the transaction
HistAfterClose(h, t) == [h EXCEPT ![t].closes = @ + 1]

\* a call of a transactional query: where it stands, the retries left, the
\* client it was called with, the transaction of the running attempt, the
\* transactions opened, the calls of the user function, the attempts that
\* ended in a conflict, the error the user function or the commit of the
\* running attempt threw, and how the call ended
NoQuery == [pc |-> "idle", retries |-> 0, prefix |-> Empty, tx |-> 0,
            attempts |-> 0, calls |-> 0, conflicts |-> 0, thrown |-> NoError,
            outcome |-> NoError, result |-> 0]

\* what the user function returns in the n-th attempt of a call
FnResult(n) == n

Init ==
  /\ storage = <<>>
  /\ log = <<>>
  /\ listeners = [i \in ListenerIds |-> NoListener]
  /\ tx = [t \in TxIds |-> NoTx]
  /\ views = {}
  /\ query = NoQuery
  /\ last = NoLast
  /\ hist = [t \in TxIds |-> NoHist]
  /\ applied = [k \in AllKeys |-> None]
  /\ steps = 0
  /\ pending = {}

\* one more operation
Tick == steps < MaxSteps /\ steps' = steps + 1

\* an operation of the synchronous client: no call is suspended by it
Step == Tick /\ UNCHANGED pending

\* ------------------------------------------------------------------------
\* The engine calls made by the operations
\* ------------------------------------------------------------------------

\* the history after the engine has served scan(args, txId)
HistAfterRead(h, t, args) ==
  [h EXCEPT ![t].reads = @ \cup {args}, ![t].ranges = @ \cup {args}]

\* some key of the batch lies within one of the bounds
Touches(writes, reads) ==
  \E i \in 1..Len(WriteKeys(writes)) : \E b \in reads :
    isTupleWithinBounds(WriteKeys(writes)[i], b)

\* the history after commit(writes, txId) succeeded
HistAfterCommit(h, writes, txId) ==
  IF ~IsSome(txId) THEN h
  ELSE [t \in TxIds |->
          IF t = txId[1]
          THEN [h[t] EXCEPT !.reads = {}, !.invalid = FALSE, !.engineOk = TRUE]
          ELSE [h[t] EXCEPT !.invalid = @ \/ Touches(writes, h[t].reads)]]

HistAfterCancel(h, t) ==
  [h EXCEPT ![t].reads = {}, ![t].invalid = FALSE]

\* what the successful commits wrote, after one more batch
AppliedAfterBatch(a, writes) ==
  [k \in AllKeys |->
     IF \E i \in 1..Len(writes.set) : writes.set[i].key = k
     THEN Some(writes.set[CHOOSE i \in 1..Len(writes.set) :
                            writes.set[i].key = k].value)
     ELSE IF \E i \in 1..Len(writes.remove) : writes.remove[i] = k
          THEN None
          ELSE a[k]]

\* what the successful commits wrote, after the commit of a transaction whose
\* last buffered operation on each key is buf
AppliedAfterTx(a, buf) ==
  [k \in AllKeys |->
     IF buf[k] = <<>> THEN a[k]
     ELSE IF buf[k][1] = "set" THEN Some(buf[k][2]) ELSE None]

\* db.commit(writes, txId): the log, the storage and the callbacks
EngineCommit(writes, txId) ==
  /\ log' = engineCommitLog(log, writes, txId)
  /\ storage' = engineCommitStorage(storage, log, writes, txId)

CommitError(writes, txId) ==
  IF engineConflict(log, writes, txId) THEN "ReadWriteConflictError"
  ELSE NoError

\* ------------------------------------------------------------------------
\* TupleDatabaseClient
\* ------------------------------------------------------------------------

\* the lowest transaction id that no transaction object has yet
FreshTx == CHOOSE t \in TxIds : ~tx[t].open /\ \A u \in TxIds : u < t => tx[u].open

ClientScanResult(pairs, P, args) ==
  removePrefixFromTupleValuePairs(
    P, storageScan(pairs, normalizeSubspaceScanArgs(P, args)))

ClientScan(P, args) ==
  /\ Step
  /\ last' = [NoLast EXCEPT !.op = "client.scan", !.prefix = P, !.args = args,
                !.engineCalls = 1,
                !.result = ClientScanResult(storage, P, args)]
  /\ UNCHANGED <<storage, log, listeners, tx, views, query, hist, applied>>

\* get: a scan with the key as both bounds
ClientGet(P, tuple) ==
  LET items == ClientScanResult(storage, P, PointArgs(tuple))
  IN /\ Step
     /\ last' = [NoLast EXCEPT !.op = "client.get", !.prefix = P,
                   !.tuple = P \o tuple, !.engineCalls = 1,
                   !.result = IF Len(items) = 0 THEN None
                              ELSE Some(items[1].value),
                   !.error = IF Len(items) > 1
                             THEN "Get expects only one value." ELSE NoError]
     /\ UNCHANGED <<storage, log, listeners, tx, views, query, hist, applied>>

ClientExists(P, tuple) ==
  LET items == ClientScanResult(storage, P, PointArgs(tuple))
  IN /\ Step
     /\ last' = [NoLast EXCEPT !.op = "client.exists", !.prefix = P,
                   !.tuple = P \o tuple, !.engineCalls = 1,
                   !.result = <<IF Len(items) = 0 THEN FALSE
                                ELSE Len(items) >= 1>>]
     /\ UNCHANGED <<storage, log, listeners, tx, views, query, hist, applied>>

ClientCommit(P, writes, txId) ==
  LET prefixedWrites == prependPrefixToWrites(P, writes)
      err == CommitError(prefixedWrites, txId)
  IN /\ Step
     /\ EngineCommit(prefixedWrites, txId)
     /\ hist' = IF err = NoError
                THEN HistAfterCommit(hist, prefixedWrites, txId) ELSE hist
     /\ applied' = IF err = NoError
                   THEN AppliedAfterBatch(applied, prefixedWrites) ELSE applied
     /\ last' = [NoLast EXCEPT !.op = "client.commit", !.prefix = P,
                   !.txId = txId, !.writes = prefixedWrites,
                   !.engineCalls = 1, !.error = err,
                   !.served = engineEmitStorage(
                                storage,
                                engineCommitStorage(storage, log,
                                                    prefixedWrites, txId)),
                   !.emits = engineCommitEmits(Registered(listeners), log,
                                               prefixedWrites, txId)]
     /\ UNCHANGED <<listeners, tx, views, query>>

\* a subscribe that hands the caller's arguments to the engine as they are
ClientSubscribeArgsRaw(P, args) == args

\* the bounds subscribe hands to the engine
ClientSubscribeArgs(P, args) == normalizeSubspaceScanArgs(P, args)

ClientSubscribe(P, args) ==
  LET storageScanArgs == ClientSubscribeArgs(P, args)
      free == {i \in ListenerIds : listeners[i].state = "none"}
      id == CHOOSE i \in free : \A j \in free : i <= j
  IN /\ Step
     /\ free # {}
     /\ listeners' = [listeners EXCEPT ![id] =
                        [state |-> "on", prefix |-> boundsPrefix(storageScanArgs),
                         bounds |-> storageScanArgs, subspacePrefix |-> P,
                         args |-> args, invoked |-> FALSE]]
     /\ last' = [NoLast EXCEPT !.op = "client.subscribe", !.prefix = P,
                   !.args = args, !.engineCalls = 1]
     /\ UNCHANGED <<storage, log, tx, views, query, hist, applied>>

\* a client that returns the handle of the first subscription every time
ClientSubscribeHandleFirst(id) == 1

\* the handle subscribe returns for the listener the engine registered: the
\* engine's own handle for that listener
ClientSubscribeHandle(id) == id

\* the handle returned by the subscribe that registered listener id is
\* invoked: the engine drops the listener of the handle, if it still has it
Unsubscribe(id) ==
  /\ Step
  /\ listeners[id].state # "none"
  /\ listeners' = [listeners EXCEPT ![ClientSubscribeHandle(id)].state = "off",
                                    ![id].invoked = TRUE]
  /\ last' = [NoLast EXCEPT !.op = "unsubscribe", !.listener = id]
  /\ UNCHANGED <<storage, log, tx, views, query, hist, applied>>

ClientTransact(P) ==
  /\ Step
  /\ \E t \in TxIds : ~tx[t].open
  /\ tx' = [tx EXCEPT ![FreshTx] = NewTx(P)]
  /\ last' = [NoLast EXCEPT !.op = "client.transact", !.prefix = P,
                !.tx = FreshTx]
  /\ UNCHANGED <<storage, log, listeners, views, query, hist, applied>>

\* ------------------------------------------------------------------------
\* TupleTransaction: the operations.  Each takes the tuple or arguments the
\* transaction object receives and whether the call came through a subspace
\* view, whose prefix Q is stripped from what a scan returns.
\* ------------------------------------------------------------------------

IsClosed(t) == checkActive(tx[t]) # NoError

\* checkActive throws: nothing is called and nothing changes
Throws(op, t, isView) ==
  /\ last' = [NoLast EXCEPT !.op = op, !.tx = t, !.view = isView,
                !.error = checkActive(tx[t]), !.closedBefore = TRUE]
  /\ UNCHANGED <<storage, log, listeners, tx, views, hist, applied>>

\* a scan that forgets to pass the transaction id to the engine
TransactionScanTxIdNone(t) == None

\* a scan that passes one id for every transaction of the client
TransactionScanTxIdShared(t) == Some(1)

\* the transaction id scan, get and exists pass to the engine
TransactionScanTxId(t) == Some(t)

TransactionScanOp(t, args, isView, Q) ==
  LET storageScanArgs == normalizeSubspaceScanArgs(tx[t].subspacePrefix, args)
  IN /\ tx[t].open
     /\ IF IsClosed(t) THEN Throws("scan", t, isView)
        ELSE /\ log' = engineScanLog(log, storageScanArgs,
                                      TransactionScanTxId(t))
             /\ hist' = HistAfterRead(hist, t, storageScanArgs)
             /\ last' = [NoLast EXCEPT !.op = "scan", !.tx = t,
                           !.view = isView, !.prefix = Q, !.args = args,
                           !.engineCalls = 1,
                           !.error = engineScanError(log, storageScanArgs,
                                                     TransactionScanTxId(t)),
                           !.result = removePrefixFromTupleValuePairs(
                                        Q, TransactionScan(storage, tx[t], args))]
             /\ UNCHANGED <<storage, listeners, tx, views, applied>>

TransactionGetOp(t, tuple, isView) ==
  LET fullTuple == prependPrefixToTuple(tx[t].subspacePrefix, tuple)
      reads == TransactionReadsEngine(tx[t], fullTuple)
  IN /\ tx[t].open
     /\ IF IsClosed(t) THEN Throws("get", t, isView)
        ELSE /\ log' = IF reads
                       THEN engineScanLog(log, PointArgs(fullTuple),
                                          TransactionScanTxId(t))
                       ELSE log
             /\ hist' = IF reads
                        THEN HistAfterRead(hist, t, PointArgs(fullTuple))
                        ELSE hist
             /\ last' = [NoLast EXCEPT !.op = "get", !.tx = t, !.view = isView,
                           !.tuple = fullTuple,
                           !.engineCalls = IF reads THEN 1 ELSE 0,
                           !.result = TransactionGet(storage, tx[t], fullTuple),
                           !.error =
                             IF reads /\ engineScanError(
                                           log, PointArgs(fullTuple),
                                           TransactionScanTxId(t)) # NoError
                             THEN engineScanError(log, PointArgs(fullTuple),
                                                  TransactionScanTxId(t))
                             ELSE TransactionGetError(storage, tx[t],
                                                      fullTuple)]
             /\ UNCHANGED <<storage, listeners, tx, views, applied>>

TransactionExistsOp(t, tuple, isView) ==
  LET fullTuple == prependPrefixToTuple(tx[t].subspacePrefix, tuple)
      reads == TransactionReadsEngine(tx[t], fullTuple)
  IN /\ tx[t].open
     /\ IF IsClosed(t) THEN Throws("exists", t, isView)
        ELSE /\ log' = IF reads
                       THEN engineScanLog(log, PointArgs(fullTuple),
                                          TransactionScanTxId(t))
                       ELSE log
             /\ hist' = IF reads
                        THEN HistAfterRead(hist, t, PointArgs(fullTuple))
                        ELSE hist
             /\ last' = [NoLast EXCEPT !.op = "exists", !.tx = t,
                           !.view = isView, !.tuple = fullTuple,
                           !.engineCalls = IF reads THEN 1 ELSE 0,
                           !.error =
                             IF reads
                             THEN engineScanError(log, PointArgs(fullTuple),
                                                  TransactionScanTxId(t))
                             ELSE NoError,
                           !.result = <<TransactionExists(storage, tx[t],
                                                          fullTuple)>>]
             /\ UNCHANGED <<storage, listeners, tx, views, applied>>

\* a set that buffers the tuple as the caller gave it
TransactionSetTupleRaw(P, tuple) == tuple

\* the tuple set buffers: the caller's, with the subspace prefix
TransactionSetTuple(P, tuple) == prependPrefixToTuple(P, tuple)

TransactionSetOp(t, tuple, value, isView) ==
  LET fullTuple == TransactionSetTuple(tx[t].subspacePrefix, tuple)
  IN /\ tx[t].open
     /\ IF IsClosed(t) THEN Throws("set", t, isView)
        ELSE /\ tx' = [tx EXCEPT ![t].writes =
                         TransactionSet(@, fullTuple, value)]
             /\ hist' = [hist EXCEPT ![t].buf[tx[t].subspacePrefix \o tuple] =
                                       <<"set", value>>]
             /\ last' = [NoLast EXCEPT !.op = "set", !.tx = t, !.view = isView,
                           !.tuple = fullTuple]
             /\ UNCHANGED <<storage, log, listeners, views, applied>>

TransactionRemoveOp(t, tuple, isView) ==
  LET fullTuple == prependPrefixToTuple(tx[t].subspacePrefix, tuple)
  IN /\ tx[t].open
     /\ IF IsClosed(t) THEN Throws("remove", t, isView)
        ELSE /\ tx' = [tx EXCEPT ![t].writes = TransactionRemove(@, fullTuple)]
             /\ hist' = [hist EXCEPT ![t].buf[fullTuple] = <<"remove", 0>>]
             /\ last' = [NoLast EXCEPT !.op = "remove", !.tx = t,
                           !.view = isView, !.tuple = fullTuple]
             /\ UNCHANGED <<storage, log, listeners, views, applied>>

\* the last buffered operation on each key after write(writes)
BufAfterWrite(buf, P, writes) ==
  [k \in AllKeys |->
     IF \E i \in 1..Len(writes.set) : P \o writes.set[i].key = k
     THEN <<"set", writes.set[CHOOSE i \in 1..Len(writes.set) :
                                /\ P \o writes.set[i].key = k
                                /\ \A j \in 1..Len(writes.set) :
                                     P \o writes.set[j].key = k => j <= i].value>>
     ELSE IF \E i \in 1..Len(writes.remove) : P \o writes.remove[i] = k
          THEN <<"remove", 0>>
          ELSE buf[k]]

\* a commit that hands only the buffered sets to the engine
TransactionCommitWritesSetOnly(t) == [set |-> tx[t].writes.set, remove |-> <<>>]

\* the batch commit hands to the engine: the buffer
TransactionCommitWrites(t) == tx[t].writes

TransactionCommitOp(t, isView) ==
  LET err == CommitError(TransactionCommitWrites(t), Some(t))
  IN /\ tx[t].open
     /\ IF IsClosed(t) THEN Throws("commit", t, isView)
        ELSE /\ tx' = [tx EXCEPT ![t].committed = TRUE]
             /\ EngineCommit(TransactionCommitWrites(t), Some(t))
             /\ hist' = IF err = NoError
                        THEN HistAfterCommit(hist, TransactionCommitWrites(t),
                                             Some(t))
                        ELSE hist
             /\ applied' = IF err = NoError
                           THEN AppliedAfterTx(applied, hist[t].buf)
                           ELSE applied
             /\ last' = [NoLast EXCEPT !.op = "commit", !.tx = t,
                           !.view = isView, !.txId = Some(t),
                           !.writes = TransactionCommitWrites(t), !.engineCalls = 1,
                           !.error = err, !.invalidBefore = hist[t].invalid,
                           !.at = [NoSnap EXCEPT !.log = log],
                           !.served = engineEmitStorage(
                                        storage,
                                        engineCommitStorage(
                                          storage, log,
                                          TransactionCommitWrites(t), Some(t))),
                           !.emits = engineCommitEmits(Registered(listeners),
                                                       log,
                                                       TransactionCommitWrites(t),
                                                       Some(t))]
             /\ UNCHANGED <<listeners, views>>

TransactionCancelOp(t, isView) ==
  /\ tx[t].open
  /\ IF IsClosed(t) THEN Throws("cancel", t, isView)
     ELSE /\ tx' = [tx EXCEPT ![t].canceled = TRUE]
          /\ log' = logCancel(log, t)
          /\ hist' = HistAfterCancel(hist, t)
          /\ last' = [NoLast EXCEPT !.op = "cancel", !.tx = t, !.view = isView,
                        !.engineCalls = 1]
          /\ UNCHANGED <<storage, listeners, views, applied>>

\* the batches passed to write and to the client's commit: at most one set
\* and one remove, on keys K
Batches(K) ==
  {[set |-> st, remove |-> rm] :
     st \in {<<>>} \cup {<<[key |-> k, value |-> v]>> : k \in K, v \in Vals},
     rm \in {<<>>} \cup {<<k>> : k \in K}}

\* no tuple twice in the batch
WellFormed(w) ==
  \A i \in 1..Len(w.set) : \A j \in 1..Len(w.remove) : w.set[i].key # w.remove[j]

TransactionWriteOp(t, writes, isView) ==
  /\ tx[t].open
  /\ IF IsClosed(t) THEN Throws("write", t, isView)
     ELSE /\ tx' = [tx EXCEPT ![t].writes =
                      TransactionWrite(@, tx[t].subspacePrefix, writes)]
          /\ hist' = [hist EXCEPT ![t].buf =
                        BufAfterWrite(@, tx[t].subspacePrefix, writes)]
          /\ last' = [NoLast EXCEPT !.op = "write", !.tx = t, !.view = isView,
                        !.writes = writes]
          /\ UNCHANGED <<storage, log, listeners, views, applied>>

\* the calls on the transaction object itself
TxScan(t, args) ==
  Step /\ TransactionScanOp(t, args, FALSE, Empty) /\ UNCHANGED query

TxGet(t, tuple) ==
  Step /\ TransactionGetOp(t, tuple, FALSE) /\ UNCHANGED query

TxExists(t, tuple) ==
  Step /\ TransactionExistsOp(t, tuple, FALSE) /\ UNCHANGED query

TxSet(t, tuple, value) ==
  Step /\ TransactionSetOp(t, tuple, value, FALSE) /\ UNCHANGED query

TxRemove(t, tuple) ==
  Step /\ TransactionRemoveOp(t, tuple, FALSE) /\ UNCHANGED query

TxWrite(t, writes) ==
  Step /\ TransactionWriteOp(t, writes, FALSE) /\ UNCHANGED query

TxCommit(t) ==
  Step /\ TransactionCommitOp(t, FALSE) /\ UNCHANGED query

TxCancel(t) ==
  Step /\ TransactionCancelOp(t, FALSE) /\ UNCHANGED query

TxSubspace(t, prefix) ==
  /\ Step
  /\ tx[t].open
  /\ IF IsClosed(t) THEN Throws("subspace", t, FALSE)
     ELSE /\ views' = views \cup {[tx |-> t, subspacePrefix |-> prefix]}
          /\ last' = [NoLast EXCEPT !.op = "subspace", !.tx = t,
                        !.prefix = prefix]
          /\ UNCHANGED <<storage, log, listeners, tx, hist, applied>>
  /\ UNCHANGED query

\* ------------------------------------------------------------------------
\* TupleTransactionSubspace: a view v = [tx, subspacePrefix] of a transaction
\* ------------------------------------------------------------------------

ViewScan(v, args) ==
  /\ Step
  /\ TransactionScanOp(v.tx, normalizeSubspaceScanArgs(v.subspacePrefix, args),
                       TRUE, v.subspacePrefix)
  /\ UNCHANGED query

ViewGet(v, tuple) ==
  /\ Step
  /\ TransactionGetOp(v.tx, prependPrefixToTuple(v.subspacePrefix, tuple), TRUE)
  /\ UNCHANGED query

ViewExists(v, tuple) ==
  /\ Step
  /\ TransactionExistsOp(v.tx, prependPrefixToTuple(v.subspacePrefix, tuple),
                         TRUE)
  /\ UNCHANGED query

ViewSet(v, tuple, value) ==
  /\ Step
  /\ TransactionSetOp(v.tx, prependPrefixToTuple(v.subspacePrefix, tuple),
                      value, TRUE)
  /\ UNCHANGED query

ViewRemove(v, tuple) ==
  /\ Step
  /\ TransactionRemoveOp(v.tx, prependPrefixToTuple(v.subspacePrefix, tuple),
                         TRUE)
  /\ UNCHANGED query

\* write on a view calls remove and set of the view for each entry; with an
\* empty batch it calls nothing
ViewWrite(v, writes) ==
  /\ Step
  /\ IF writes = NoWrites
     THEN /\ last' = [NoLast EXCEPT !.op = "write", !.tx = v.tx, !.view = TRUE,
                        !.closedBefore = IsClosed(v.tx)]
          /\ UNCHANGED <<storage, log, listeners, tx, views, hist, applied>>
     ELSE TransactionWriteOp(v.tx,
                             prependPrefixToWrites(v.subspacePrefix, writes),
                             TRUE)
  /\ UNCHANGED query

ViewCommit(v) ==
  Step /\ TransactionCommitOp(v.tx, TRUE) /\ UNCHANGED query

ViewCancel(v) ==
  Step /\ TransactionCancelOp(v.tx, TRUE) /\ UNCHANGED query

\* subspace on a view builds a view of the same transaction
ViewSubspace(v, prefix) ==
  /\ Step
  /\ views' = views \cup {[tx |-> v.tx,
                           subspacePrefix |-> v.subspacePrefix \o prefix]}
  /\ last' = [NoLast EXCEPT !.op = "subspace", !.tx = v.tx, !.view = TRUE,
                !.prefix = v.subspacePrefix \o prefix,
                !.closedBefore = IsClosed(v.tx)]
  /\ UNCHANGED <<storage, log, listeners, tx, query, hist, applied>>

\* ------------------------------------------------------------------------
\* transactionalQuery and retry
\* ------------------------------------------------------------------------

\* a retry that gives up one failure later
RetryGivesUpLate(retries) == retries < 0

\* retry rethrows the error when no retries are left
RetryGivesUp(retries) == retries <= 0

\* a catch that takes every error for a conflict
RetryCatchAll(q, error) ==
  LET c == [q EXCEPT !.conflicts = @ + 1]
  IN IF RetryGivesUp(q.retries)
     THEN [c EXCEPT !.pc = "done", !.outcome = error]
     ELSE [c EXCEPT !.pc = "retry", !.retries = @ - 1]

\* the catch of retry: rethrow, or count the retry down and loop
RetryCatch(q, error) ==
  LET isConflict == error = "ReadWriteConflictError"
      c == [q EXCEPT !.conflicts = IF isConflict THEN @ + 1 ELSE @]
  IN IF RetryGivesUp(q.retries) \/ ~isConflict
     THEN [c EXCEPT !.pc = "done", !.outcome = error]
     ELSE [c EXCEPT !.pc = "retry", !.retries = @ - 1]

\* transactionalQuery(retries)(fn)(db): the call enters retry
QueryCall(retries, P) ==
  /\ query.pc = "idle"
  /\ query' = [query EXCEPT !.pc = "retry", !.retries = retries, !.prefix = P]
  /\ UNCHANGED <<storage, log, listeners, tx, views, last, hist, applied,
                 steps, pending>>

\* an attempt begins: retry calls its function, which opens a transaction and
\* calls the user function with it
QueryAttempt ==
  /\ query.pc = "retry"
  /\ \E t \in TxIds : ~tx[t].open
  /\ tx' = [tx EXCEPT ![FreshTx] = NewTx(query.prefix)]
  /\ query' = [query EXCEPT !.pc = "fn", !.tx = FreshTx,
                 !.attempts = @ + 1, !.calls = @ + 1, !.thrown = NoError]
  /\ last' = [NoLast EXCEPT !.op = "client.transact", !.prefix = query.prefix,
                !.tx = FreshTx]
  /\ UNCHANGED <<storage, log, listeners, views, hist, applied, steps,
                 pending>>

\* the user function returns: the transaction is committed, and the call
\* returns, or the error of the commit reaches the catch of retry
QueryFnReturns ==
  /\ query.pc = "fn"
  /\ TransactionCommitOp(query.tx, FALSE)
  /\ query' = IF last'.error = NoError
              THEN [query EXCEPT !.pc = "done", !.outcome = "returned",
                                 !.result = FnResult(query.attempts)]
              ELSE RetryCatch([query EXCEPT !.thrown = last'.error],
                              last'.error)
  /\ UNCHANGED <<steps, pending>>

\* the user function throws: the transaction is canceled and the error, or
\* the error of the cancel, reaches the catch of retry
QueryFnThrows(error) ==
  /\ query.pc = "fn"
  /\ TransactionCancelOp(query.tx, FALSE)
  /\ query' = RetryCatch([query EXCEPT !.thrown = error],
                          IF last'.error = NoError THEN error
                          ELSE last'.error)
  /\ UNCHANGED <<steps, pending>>

\* transactionalQuery(retries)(fn)(tx): called with a transaction, the user
\* function is called with it
QueryCallTx(t) ==
  /\ query.pc = "idle"
  /\ tx[t].open
  /\ query' = [query EXCEPT !.pc = "fnTx", !.tx = t, !.calls = @ + 1]
  /\ UNCHANGED <<storage, log, listeners, tx, views, last, hist, applied,
                 steps, pending>>

\* a wrapper that commits the transaction it was called with
QueryTxFnReturnsCommitting ==
  /\ query.pc = "fnTx"
  /\ TransactionCommitOp(query.tx, FALSE)
  /\ query' = [query EXCEPT !.pc = "done", !.outcome = "returned"]
  /\ UNCHANGED <<steps, pending>>

\* the user function returns, and so does the call
QueryTxFnReturns ==
  /\ query.pc = "fnTx"
  /\ query' = [query EXCEPT !.pc = "done", !.outcome = "returned"]
  /\ UNCHANGED <<storage, log, listeners, tx, views, last, hist, applied,
                 steps, pending>>

\* the user function throws, and so does the call
QueryTxFnThrows(error) ==
  /\ query.pc = "fnTx"
  /\ query' = [query EXCEPT !.pc = "done", !.thrown = error,
                 !.outcome = error]
  /\ UNCHANGED <<storage, log, listeners, tx, views, last, hist, applied,
                 steps, pending>>

\* ------------------------------------------------------------------------
\* AsyncTupleTransaction and AsyncTupleDatabaseClient.  A call that reaches
\* an await is suspended: it joins pending, the engine serves it at one later
\* moment, and the call resumes at a moment after that.  The calls that
\* reach no await (set, remove, write, a get the buffer answers, a call on a
\* closed transaction) are over in one step.
\* ------------------------------------------------------------------------

Snap == [storage |-> storage, log |-> log, tx |-> tx]

\* a suspended call: its number, what was called, on which transaction or
\* through which client prefix, the bounds handed to the engine, the caller's
\* bounds and tuple, the batch handed to the engine, the caller's batch,
\* whether the engine
\* has served it, the engine's answer, and what the call found when it
\* started and what the storage held when the engine served it
NoCall ==
  [no |-> 0, op |-> "", tx |-> 0, prefix |-> Empty, args |-> NoArgs,
   user |-> NoArgs, tuple |-> Empty, writes |-> NoWrites,
   given |-> NoWrites, served |-> FALSE,
   pairs |-> <<>>, error |-> NoError, emits |-> NoEmits, at |-> NoSnap,
   atServe |-> <<>>]

AsyncCheckActive(t) ==
  IF t.committed THEN "Transaction already committed"
  ELSE IF t.canceled THEN "Transaction already canceled"
  ELSE NoError

\* a get and an exists that look for a buffered set only
AsyncAnswersFromSets(t, fullTuple) == tvExists(t.writes.set, fullTuple)

\* get and exists answer from the buffer, without awaiting the engine
AsyncAnswersFromBuffer(t, fullTuple) ==
  tvExists(t.writes.set, fullTuple) \/ tExists(t.writes.remove, fullTuple)

\* what get returns when the buffer answers
AsyncGetFromBuffer(t, fullTuple) ==
  IF tvExists(t.writes.set, fullTuple) THEN tvGet(t.writes.set, fullTuple)
  ELSE None

\* what get returns, and throws, after the engine's answer
AsyncGetResult(items) == IF Len(items) = 0 THEN None ELSE Some(items[1].value)

AsyncGetError(items) ==
  IF Len(items) > 1 THEN "Get expects only one value." ELSE NoError

AsyncExistsResult(items) == Len(items) >= 1

\* what scan returns after the engine's answer: the answer without the
\* prefix, overlaid with the buffer as it is when the call resumes
AsyncScanResult(t, storageScanArgs, pairs) ==
  LET result == removePrefixFromTupleValuePairs(t.subspacePrefix, pairs)
      sets == tvScan(t.writes.set, storageScanArgs)
      removes == tScan(t.writes.remove, storageScanArgs)
  IN OverlayRemoves(OverlaySets(result, t.subspacePrefix, sets),
                    t.subspacePrefix, removes)

AsyncTransactionSet(w, fullTuple, value) ==
  [set |-> tvSet(w.set, fullTuple, value),
   remove |-> tRemove(w.remove, fullTuple)]

AsyncTransactionRemove(w, fullTuple) ==
  [set |-> tvRemove(w.set, fullTuple),
   remove |-> tSet(w.remove, fullTuple)]

RECURSIVE AsyncWriteRemoves(_, _, _)
AsyncWriteRemoves(w, P, removes) ==
  IF removes = <<>> THEN w
  ELSE AsyncWriteRemoves(AsyncTransactionRemove(w, P \o Head(removes)), P,
                         Tail(removes))

RECURSIVE AsyncWriteSets(_, _, _)
AsyncWriteSets(w, P, sets) ==
  IF sets = <<>> THEN w
  ELSE AsyncWriteSets(AsyncTransactionSet(w, P \o Head(sets).key,
                                          Head(sets).value), P, Tail(sets))

AsyncTransactionWrite(w, P, writes) ==
  AsyncWriteSets(AsyncWriteRemoves(w, P, writes.remove), P, writes.set)

\* a call that is over in one step
Returns(op, t) ==
  [NoLast EXCEPT !.op = op, !.tx = t, !.async = TRUE, !.at = Snap]

\* checkActive throws: the call is over, nothing was called, nothing changes
AsyncRejects(op, t) ==
  /\ last' = [Returns(op, t) EXCEPT !.error = AsyncCheckActive(tx[t]),
                !.closedBefore = TRUE]
  /\ UNCHANGED <<storage, log, listeners, tx, views, hist, applied, pending>>

\* the call reaches its await
Suspends(call) ==
  /\ pending' = pending \cup {[call EXCEPT !.no = steps, !.at = Snap]}
  /\ last' = [NoLast EXCEPT !.op = "call", !.tx = call.tx, !.async = TRUE]
  /\ UNCHANGED <<storage, log, listeners, views, hist, applied>>

AsyncTxScan(t, args) ==
  /\ Tick /\ tx[t].open
  /\ IF AsyncCheckActive(tx[t]) # NoError THEN AsyncRejects("scan", t)
     ELSE /\ Suspends([NoCall EXCEPT !.op = "scan", !.tx = t, !.user = args,
                         !.args = normalizeSubspaceScanArgs(
                                    tx[t].subspacePrefix, args)])
          /\ UNCHANGED tx
  /\ UNCHANGED query

AsyncTxGet(t, tuple) ==
  LET fullTuple == prependPrefixToTuple(tx[t].subspacePrefix, tuple)
  IN /\ Tick /\ tx[t].open
     /\ IF AsyncCheckActive(tx[t]) # NoError THEN AsyncRejects("get", t)
        ELSE IF AsyncAnswersFromBuffer(tx[t], fullTuple)
        THEN /\ last' = [Returns("get", t) EXCEPT !.tuple = tuple,
                           !.result = AsyncGetFromBuffer(tx[t], fullTuple)]
             /\ UNCHANGED <<storage, log, listeners, tx, views, hist, applied,
                            pending>>
        ELSE /\ Suspends([NoCall EXCEPT !.op = "get", !.tx = t,
                            !.tuple = tuple, !.args = PointArgs(fullTuple)])
             /\ UNCHANGED tx
     /\ UNCHANGED query

AsyncTxExists(t, tuple) ==
  LET fullTuple == prependPrefixToTuple(tx[t].subspacePrefix, tuple)
  IN /\ Tick /\ tx[t].open
     /\ IF AsyncCheckActive(tx[t]) # NoError THEN AsyncRejects("exists", t)
        ELSE IF AsyncAnswersFromBuffer(tx[t], fullTuple)
        THEN /\ last' = [Returns("exists", t) EXCEPT !.tuple = tuple,
                           !.result = <<tvExists(tx[t].writes.set, fullTuple)>>]
             /\ UNCHANGED <<storage, log, listeners, tx, views, hist, applied,
                            pending>>
        ELSE /\ Suspends([NoCall EXCEPT !.op = "exists", !.tx = t,
                            !.tuple = tuple, !.args = PointArgs(fullTuple)])
             /\ UNCHANGED tx
     /\ UNCHANGED query

AsyncTxSet(t, tuple, value) ==
  LET fullTuple == prependPrefixToTuple(tx[t].subspacePrefix, tuple)
  IN /\ Tick /\ tx[t].open
     /\ IF AsyncCheckActive(tx[t]) # NoError THEN AsyncRejects("set", t)
        ELSE /\ tx' = [tx EXCEPT ![t].writes =
                         AsyncTransactionSet(@, fullTuple, value)]
             /\ hist' = [hist EXCEPT ![t].buf[fullTuple] = <<"set", value>>]
             /\ last' = [Returns("set", t) EXCEPT !.tuple = tuple,
                           !.value = value]
             /\ UNCHANGED <<storage, log, listeners, views, applied, pending>>
     /\ UNCHANGED query

AsyncTxRemove(t, tuple) ==
  LET fullTuple == prependPrefixToTuple(tx[t].subspacePrefix, tuple)
  IN /\ Tick /\ tx[t].open
     /\ IF AsyncCheckActive(tx[t]) # NoError THEN AsyncRejects("remove", t)
        ELSE /\ tx' = [tx EXCEPT ![t].writes =
                         AsyncTransactionRemove(@, fullTuple)]
             /\ hist' = [hist EXCEPT ![t].buf[fullTuple] = <<"remove", 0>>]
             /\ last' = [Returns("remove", t) EXCEPT !.tuple = tuple]
             /\ UNCHANGED <<storage, log, listeners, views, applied, pending>>
     /\ UNCHANGED query

AsyncTxWrite(t, writes) ==
  /\ Tick /\ tx[t].open
  /\ IF AsyncCheckActive(tx[t]) # NoError THEN AsyncRejects("write", t)
     ELSE /\ tx' = [tx EXCEPT ![t].writes =
                      AsyncTransactionWrite(@, tx[t].subspacePrefix, writes)]
          /\ hist' = [hist EXCEPT ![t].buf =
                        BufAfterWrite(@, tx[t].subspacePrefix, writes)]
          /\ last' = [Returns("write", t) EXCEPT !.writes = writes]
          /\ UNCHANGED <<storage, log, listeners, views, applied, pending>>
  /\ UNCHANGED query

\* a commit that is suspended before it marks the transaction
AsyncCommitMarksLate(T) == T

\* commit marks the transaction before its first suspension
AsyncCommitMarks(T) == [T EXCEPT !.committed = TRUE]

\* commit marks the transaction and hands its buffer, the object itself, to
\* the engine before it is suspended
AsyncTxCommit(t) ==
  /\ Tick /\ tx[t].open
  /\ IF AsyncCheckActive(tx[t]) # NoError THEN AsyncRejects("commit", t)
     ELSE /\ tx' = [tx EXCEPT ![t] = AsyncCommitMarks(@)]
          /\ Suspends([NoCall EXCEPT !.op = "commit", !.tx = t])
  /\ UNCHANGED query

AsyncTxCancel(t) ==
  /\ Tick /\ tx[t].open
  /\ IF AsyncCheckActive(tx[t]) # NoError THEN AsyncRejects("cancel", t)
     ELSE /\ tx' = [tx EXCEPT ![t].canceled = TRUE]
          /\ Suspends([NoCall EXCEPT !.op = "cancel", !.tx = t])
  /\ UNCHANGED query

AsyncClientScan(P, args) ==
  /\ Tick
  /\ Suspends([NoCall EXCEPT !.op = "client.scan", !.prefix = P,
                 !.user = args, !.args = normalizeSubspaceScanArgs(P, args)])
  /\ UNCHANGED <<tx, query>>

AsyncClientCommit(P, writes) ==
  /\ Tick
  /\ Suspends([NoCall EXCEPT !.op = "client.commit", !.prefix = P,
                 !.given = writes,
                 !.writes = prependPrefixToWrites(P, writes)])
  /\ UNCHANGED <<tx, query>>

\* the operations that read through the engine
ReadOps == {"scan", "get", "exists"}

\* the engine serves a suspended call, whole, at one moment of its own
EngineServes(p) ==
  LET t == p.tx
      txId == IF t = 0 THEN None ELSE Some(t)
      writes == IF p.op = "commit" THEN tx[t].writes ELSE p.writes
      answered(q) == (pending \ {p}) \cup {[q EXCEPT !.served = TRUE]}
  IN /\ p \in pending /\ ~p.served
     /\ IF p.op \in ReadOps \cup {"client.scan"}
        THEN /\ log' = engineScanLog(log, p.args, txId)
             /\ hist' = IF IsSome(txId) THEN HistAfterRead(hist, t, p.args)
                        ELSE hist
             /\ pending' = answered([p EXCEPT
                                       !.pairs = storageScan(storage, p.args),
                                       !.atServe = storage])
             /\ UNCHANGED <<storage, applied>>
        ELSE IF p.op = "cancel"
        THEN /\ log' = logCancel(log, t)
             /\ hist' = HistAfterClose(HistAfterCancel(hist, t), t)
             /\ pending' = answered(p)
             /\ UNCHANGED <<storage, applied>>
        ELSE /\ EngineCommit(writes, txId)
             /\ hist' =
                  LET h == IF CommitError(writes, txId) = NoError
                           THEN HistAfterCommit(hist, writes, txId) ELSE hist
                  IN IF p.op = "commit" THEN HistAfterClose(h, t) ELSE h
             /\ applied' = IF CommitError(writes, txId) = NoError
                           THEN AppliedAfterBatch(applied, writes) ELSE applied
             /\ pending' = answered([p EXCEPT
                                       !.writes = writes,
                                       !.error = CommitError(writes, txId),
                                       !.emits = engineCommitEmits(
                                                   Registered(listeners), log,
                                                   writes, txId)])
     /\ last' = [NoLast EXCEPT !.op = "serve", !.tx = t, !.async = TRUE]
     /\ UNCHANGED <<listeners, tx, views, query, steps>>

\* a served call resumes after its await and returns or throws
AsyncResumes(p) ==
  LET done == [NoLast EXCEPT !.op = p.op, !.tx = p.tx, !.async = TRUE,
                 !.prefix = p.prefix, !.args = p.user, !.tuple = p.tuple,
                 !.writes = IF p.op = "client.commit" THEN p.given
                            ELSE p.writes,
                 !.engineCalls = 1, !.at = p.at,
                 !.served = p.atServe]
  IN /\ p \in pending /\ p.served
     /\ pending' = pending \ {p}
     /\ last' =
          IF p.op = "scan"
          THEN [done EXCEPT !.result = AsyncScanResult(tx[p.tx], p.args, p.pairs)]
          ELSE IF p.op = "get"
          THEN [done EXCEPT !.result = AsyncGetResult(p.pairs),
                            !.error = AsyncGetError(p.pairs)]
          ELSE IF p.op = "exists"
          THEN [done EXCEPT !.result = <<AsyncExistsResult(p.pairs)>>]
          ELSE IF p.op = "client.scan"
          THEN [done EXCEPT !.result =
                  removePrefixFromTupleValuePairs(p.prefix, p.pairs)]
          ELSE [done EXCEPT !.error = p.error, !.emits = p.emits]
     /\ UNCHANGED <<storage, log, listeners, tx, views, query, hist, applied,
                    steps>>

\* ------------------------------------------------------------------------
\* Specification
\* ------------------------------------------------------------------------

\* the prefix under which a view stores its keys
FullPrefix(v) == tx[v.tx].subspacePrefix \o v.subspacePrefix

\* the prefixes a subspace call receives
SubPrefixes == {<<1>>}

OpenTx == {t \in TxIds : tx[t].open}

\* the raw commits of the client carry no transaction id, or the id of a
\* transaction run by another client of the same engine
ForeignTx == 0

\* two transactions of the root client are open
InitTx ==
  /\ storage = <<>>
  /\ log = <<>>
  /\ listeners = [i \in ListenerIds |->
                   [state |-> "on", prefix |-> Empty, bounds |-> NoArgs,
                    subspacePrefix |-> Empty, args |-> NoArgs]]
  /\ tx = [t \in TxIds |-> NewTx(Empty)]
  /\ views = {}
  /\ query = NoQuery
  /\ last = NoLast
  /\ hist = [t \in TxIds |-> NoHist]
  /\ applied = [k \in AllKeys |-> None]
  /\ steps = 0
  /\ pending = {}

ConflictArgs == {NoArgs, [NoArgs EXCEPT !.prefix = Some(<<1>>)]}

\* the pairs the transactions of this specification set
ConflictSets == {<<k, 1>> : k \in AllKeys} \cup {<<(<<1, 1>>), 2>>}

Next ==
  \/ \E t \in OpenTx : \E args \in ConflictArgs : TxScan(t, args)
  \/ \E t \in OpenTx : \E kv \in ConflictSets : TxSet(t, kv[1], kv[2])
  \/ \E t \in OpenTx : \E k \in UserKeys(tx[t].subspacePrefix) : TxRemove(t, k)
  \/ \E t \in OpenTx : TxCommit(t)
  \/ \E t \in OpenTx : TxCancel(t)

Spec == InitTx /\ [][Next]_vars

\* ------------------------------------------------------------------------
\* Reads: a transaction of the root client and one of the subspace client
\* over a storage that already holds a pair; the behaviours are one operation
\* shorter than MaxSteps
\* ------------------------------------------------------------------------

\* the keys in the order of the comparator
KeyOrder == <<(<<1>>), (<<1, 1>>), (<<2>>)>>

\* the storage contents the behaviours start from
StoredAtStart == {<<>>, <<[key |-> <<1, 1>>, value |-> 1]>>}

InitReads ==
  /\ storage \in StoredAtStart
  /\ log = <<>>
  /\ listeners = [i \in ListenerIds |-> NoListener]
  /\ tx = [t \in TxIds |-> IF t = 1 THEN NewTx(Empty) ELSE NewTx(<<1>>)]
  /\ views = {}
  /\ query = NoQuery
  /\ last = NoLast
  /\ hist = [t \in TxIds |-> NoHist]
  /\ applied = [k \in AllKeys |-> tvGet(storage, k)]
  /\ steps = 1
  /\ pending = {}

ReadArgs == {NoArgs, [NoArgs EXCEPT !.limit = Some(1)],
             [NoArgs EXCEPT !.prefix = Some(Empty)]}

NextReads ==
  \/ \E t \in OpenTx : \E k \in UserKeys(tx[t].subspacePrefix) :
       \E v \in Vals : TxSet(t, k, v)
  \/ \E t \in OpenTx : \E k \in UserKeys(tx[t].subspacePrefix) : TxRemove(t, k)
  \/ \E t \in OpenTx : \E k \in UserKeys(tx[t].subspacePrefix) : TxGet(t, k)
  \/ \E t \in OpenTx : \E k \in UserKeys(tx[t].subspacePrefix) : TxExists(t, k)
  \/ \E t \in OpenTx : TxCommit(t)
  \/ \E t \in OpenTx : TxCancel(t)
  \/ \E P \in ClientPrefixes : \E k \in UserKeys(P) : ClientGet(P, k)
  \/ \E P \in ClientPrefixes : \E args \in ReadArgs \cap ArgsFor(P) :
       ClientScan(P, args)

SpecReads == InitReads /\ [][NextReads]_vars

\* ------------------------------------------------------------------------
\* Reactivity: subscriptions of both clients, commits of the clients and of
\* a transaction; the behaviours are one operation shorter than MaxSteps
\* ------------------------------------------------------------------------

InitReact ==
  /\ storage \in StoredAtStart
  /\ log = <<>>
  /\ listeners = [i \in ListenerIds |-> NoListener]
  /\ tx = [t \in TxIds |-> IF t = 1 THEN NewTx(Empty) ELSE NoTx]
  /\ views = {}
  /\ query = NoQuery
  /\ last = NoLast
  /\ hist = [t \in TxIds |-> NoHist]
  /\ applied = [k \in AllKeys |-> tvGet(storage, k)]
  /\ steps = 1
  /\ pending = {}

\* the bounds the subscriptions are made with
SubscribeArgs ==
  { NoArgs,
    [NoArgs EXCEPT !.prefix = Some(<<1>>)],
    [NoArgs EXCEPT !.prefix = Some(Empty)],
    Bnd(Some(<<1>>), None, None, Some(<<1, MAX>>)),
    Bnd(None, Some(<<2>>), None, None) }

\* the batches the client commits: at most one set and one remove
CommitBatches(P) ==
  {w \in Batches(UserKeys(P)) :
     /\ w # NoWrites /\ WellFormed(w)
     /\ \A i \in 1..Len(w.set) : w.set[i].value = 1}

NextReact ==
  \/ \E P \in ClientPrefixes : \E args \in SubscribeArgs \cap ArgsFor(P) :
       ClientSubscribe(P, args)
  \/ \E id \in ListenerIds : Unsubscribe(id)
  \/ \E P \in ClientPrefixes : \E w \in CommitBatches(P) :
       ClientCommit(P, w, None)
  \/ \E t \in OpenTx : \E kv \in ConflictSets : TxSet(t, kv[1], kv[2])
  \/ \E t \in OpenTx : \E k \in UserKeys(tx[t].subspacePrefix) : TxRemove(t, k)
  \/ \E t \in OpenTx : TxCommit(t)

SpecReact == InitReact /\ [][NextReact]_vars

\* ------------------------------------------------------------------------
\* Scans of a transaction: every storage content and every buffer, one scan
\* ------------------------------------------------------------------------

\* what a key holds in the storage: 0 for nothing, or its value
Contents == [AllKeys -> {0} \cup Vals]

\* the sorted array of the pairs of a content
PairsOf(c) ==
  LET keys == SelectSeq(KeyOrder, LAMBDA k : c[k] # 0)
  IN [i \in 1..Len(keys) |-> [key |-> keys[i], value |-> c[keys[i]]]]

\* the last buffered operation on a key: <<>>, a set or a remove
BufferedOps == {<<>>, <<"remove", 0>>} \cup {<<"set", v>> : v \in Vals}

\* the buffers of a transaction with prefix P: it buffers keys under P only
Buffers(P) ==
  {b \in [AllKeys -> BufferedOps] :
     \A k \in AllKeys : IsPrefixOf(P, k) \/ b[k] = <<>>}

\* the buffer in which the last operation on each key is b
WritesOf(b) ==
  LET sets == SelectSeq(KeyOrder, LAMBDA k : b[k] # <<>> /\ b[k][1] = "set")
  IN [set |-> [i \in 1..Len(sets) |->
                 [key |-> sets[i], value |-> b[sets[i]][2]]],
      remove |-> SelectSeq(KeyOrder, LAMBDA k : b[k] = <<"remove", 0>>)]

InitScan ==
  /\ \E c \in Contents : storage = PairsOf(c)
  /\ log = <<>>
  /\ listeners = [i \in ListenerIds |-> NoListener]
  /\ \E P \in ClientPrefixes : \E b \in Buffers(P) :
       /\ tx = [t \in TxIds |->
                  IF t = 1 THEN [NewTx(P) EXCEPT !.writes = WritesOf(b)]
                  ELSE NoTx]
       /\ hist = [t \in TxIds |->
                    IF t = 1 THEN [NoHist EXCEPT !.buf = b] ELSE NoHist]
  /\ views = {}
  /\ query = NoQuery
  /\ last = NoLast
  /\ applied = [k \in AllKeys |-> tvGet(storage, k)]
  /\ steps = MaxSteps - 1
  /\ pending = {}

NextScan ==
  \E t \in OpenTx : \E args \in ArgsFor(tx[t].subspacePrefix) : TxScan(t, args)

SpecScan == InitScan /\ [][NextScan]_vars

\* ------------------------------------------------------------------------
\* One transaction and its subspace views, every operation on each
\* ------------------------------------------------------------------------

\* the key the operations of the transaction and of its views address
ViewKey == <<1, 1>>

\* the key as a holder with prefix P names it
ViewKeys(P) == {k \in UserKeys(P) : P \o k = ViewKey}

\* the batches passed to write: the empty one and a set
ViewBatches(P) ==
  {NoWrites} \cup
  {[set |-> <<[key |-> k, value |-> 1]>>, remove |-> <<>>] : k \in ViewKeys(P)}

InitView ==
  /\ storage = <<>>
  /\ log = <<>>
  /\ listeners = [i \in ListenerIds |-> NoListener]
  /\ tx = [t \in TxIds |-> IF t = 1 THEN NewTx(Empty) ELSE NoTx]
  /\ views = {}
  /\ query = NoQuery
  /\ last = NoLast
  /\ hist = [t \in TxIds |-> NoHist]
  /\ applied = [k \in AllKeys |-> None]
  /\ steps = 0
  /\ pending = {}

NextView ==
  \/ \E t \in OpenTx : TxScan(t, NoArgs)
  \/ \E t \in OpenTx : \E k \in ViewKeys(tx[t].subspacePrefix) : TxGet(t, k)
  \/ \E t \in OpenTx : \E k \in ViewKeys(tx[t].subspacePrefix) : TxExists(t, k)
  \/ \E t \in OpenTx : \E k \in ViewKeys(tx[t].subspacePrefix) : TxSet(t, k, 1)
  \/ \E t \in OpenTx : \E k \in ViewKeys(tx[t].subspacePrefix) : TxRemove(t, k)
  \/ \E t \in OpenTx : \E w \in ViewBatches(tx[t].subspacePrefix) : TxWrite(t, w)
  \/ \E t \in OpenTx : TxCommit(t)
  \/ \E t \in OpenTx : TxCancel(t)
  \/ \E t \in OpenTx : \E prefix \in SubPrefixes : TxSubspace(t, prefix)
  \/ \E v \in views : ViewScan(v, NoArgs)
  \/ \E v \in views : \E k \in ViewKeys(FullPrefix(v)) : ViewGet(v, k)
  \/ \E v \in views : \E k \in ViewKeys(FullPrefix(v)) : ViewExists(v, k)
  \/ \E v \in views : \E k \in ViewKeys(FullPrefix(v)) : ViewSet(v, k, 1)
  \/ \E v \in views : \E k \in ViewKeys(FullPrefix(v)) : ViewRemove(v, k)
  \/ \E v \in views : \E w \in ViewBatches(FullPrefix(v)) : ViewWrite(v, w)
  \/ \E v \in views : ViewCommit(v)
  \/ \E v \in views : ViewCancel(v)
  \/ \E v \in views : \E prefix \in SubPrefixes : ViewSubspace(v, prefix)

SpecView == InitView /\ [][NextView]_vars

\* ------------------------------------------------------------------------
\* A transactional query called with the root client, its user function
\* reading, writing and closing the transaction, and another client of the
\* engine committing in between
\* ------------------------------------------------------------------------

\* the retries the query is configured with
Retries == 1

\* the errors the user function throws
FnErrors == {"UserError", "ReadWriteConflictError"}

\* the batches the other client commits
ForeignBatches == {[set |-> <<[key |-> <<1, 1>>, value |-> 1]>>, remove |-> <<>>]}

\* the user function is running
InFn == {t \in OpenTx : query.pc = "fn" /\ query.tx = t}

NextRetry ==
  \/ QueryCall(Retries, Empty)
  \/ QueryAttempt
  \/ QueryFnReturns
  \/ \E error \in FnErrors : QueryFnThrows(error)
  \/ \E t \in InFn : \E args \in ConflictArgs : TxScan(t, args)
  \/ \E t \in InFn : \E k \in UserKeys(tx[t].subspacePrefix) :
       \E v \in Vals : TxSet(t, k, v)
  \/ \E t \in InFn : TxCommit(t)
  \/ \E t \in InFn : TxCancel(t)
  \/ \E w \in ForeignBatches :
       query.pc = "fn" /\ ClientCommit(Empty, w, Some(ForeignTx))

SpecRetry == Init /\ [][NextRetry]_vars

\* ------------------------------------------------------------------------
\* A transactional query called with a transaction: the caller writes to the
\* transaction before and after the call and commits it, the user function
\* reads and writes
\* ------------------------------------------------------------------------

\* the value set at this point of the call: the caller sets 1, the user
\* function 2
ValueNow == IF query.pc = "fnTx" THEN 2 ELSE 1

NextCompose ==
  \/ \E t \in OpenTx : QueryCallTx(t)
  \/ QueryTxFnReturns
  \/ \E error \in FnErrors : QueryTxFnThrows(error)
  \/ \E t \in OpenTx : \E k \in AllKeys : TxSet(t, k, ValueNow)
  \/ \E t \in OpenTx : \E k \in AllKeys : TxRemove(t, k)
  \/ \E t \in OpenTx : \E k \in AllKeys : TxGet(t, k)
  \/ \E t \in OpenTx : query.pc # "fnTx" /\ TxCommit(t)

SpecCompose == InitView /\ [][NextCompose]_vars

\* ------------------------------------------------------------------------
\* Two transactions reading ranges that overlap or not, writing any key
\* ------------------------------------------------------------------------

\* the bounds the transactions scan: the keys under <<1>>, the key <<2>>, all
DisjointArgs ==
  {[NoArgs EXCEPT !.prefix = Some(<<1>>)], PointArgs(<<2>>), NoArgs}

NextDisjoint ==
  \/ \E t \in OpenTx : \E args \in DisjointArgs : TxScan(t, args)
  \/ \E t \in OpenTx : \E k \in AllKeys : TxSet(t, k, 1)
  \/ \E t \in OpenTx : \E k \in AllKeys : TxRemove(t, k)
  \/ \E t \in OpenTx : TxCommit(t)

SpecDisjoint == InitTx /\ [][NextDisjoint]_vars

\* ------------------------------------------------------------------------
\* Clients of subspaces: transactions that set and commit, gets and scans
\* ------------------------------------------------------------------------

NextSub ==
  \/ \E P \in ClientPrefixes : ClientTransact(P)
  \/ \E t \in OpenTx : \E k \in UserKeys(tx[t].subspacePrefix) :
       \E v \in Vals : TxSet(t, k, v)
  \/ \E t \in OpenTx : TxCommit(t)
  \/ \E P \in ClientPrefixes : \E k \in UserKeys(P) : ClientGet(P, k)
  \/ \E P \in ClientPrefixes : ClientScan(P, NoArgs)

SpecSub == Init /\ [][NextSub]_vars

\* ------------------------------------------------------------------------
\* Clients of the root and of a subspace on a storage that holds keys inside
\* and outside the subspace: scans with any arguments, subscriptions, commits
\* ------------------------------------------------------------------------

InitConfine ==
  /\ \E c \in Contents : storage = PairsOf(c)
  /\ log = <<>>
  /\ listeners = [i \in ListenerIds |-> NoListener]
  /\ tx = [t \in TxIds |-> NoTx]
  /\ views = {}
  /\ query = NoQuery
  /\ last = NoLast
  /\ hist = [t \in TxIds |-> NoHist]
  /\ applied = [k \in AllKeys |-> tvGet(storage, k)]
  /\ steps = MaxSteps - 2
  /\ pending = {}

NextConfine ==
  \/ \E P \in ClientPrefixes : \E args \in ScanArgsSet : ClientScan(P, args)
  \/ \E P \in ClientPrefixes : \E args \in SubscribeArgs :
       ClientSubscribe(P, args)
  \/ \E P \in ClientPrefixes : \E w \in CommitBatches(P) :
       ClientCommit(P, w, None)

SpecConfine == InitConfine /\ [][NextConfine]_vars

\* ------------------------------------------------------------------------
\* The buffer of one transaction under set, remove and write, called on the
\* transaction and on its subspace views, with batches that may name a tuple
\* both as set and as removed
\* ------------------------------------------------------------------------

InitBuffer ==
  /\ storage = <<>>
  /\ log = <<>>
  /\ listeners = [i \in ListenerIds |-> NoListener]
  /\ tx = [t \in TxIds |-> IF t = 1 THEN NewTx(Empty) ELSE NoTx]
  /\ views = {}
  /\ query = NoQuery
  /\ last = NoLast
  /\ hist = [t \in TxIds |-> NoHist]
  /\ applied = [k \in AllKeys |-> None]
  /\ steps = 1
  /\ pending = {}

NextBuffer ==
  \/ \E t \in OpenTx : \E k \in AllKeys : \E v \in Vals : TxSet(t, k, v)
  \/ \E t \in OpenTx : \E k \in AllKeys : TxRemove(t, k)
  \/ \E t \in OpenTx : \E w \in Batches(AllKeys) : TxWrite(t, w)
  \/ \E t \in OpenTx : \E prefix \in SubPrefixes : TxSubspace(t, prefix)
  \/ \E v \in views : \E k \in UserKeys(FullPrefix(v)) : \E x \in Vals :
       ViewSet(v, k, x)
  \/ \E v \in views : \E k \in UserKeys(FullPrefix(v)) : ViewRemove(v, k)
  \/ \E v \in views : \E w \in Batches(UserKeys(FullPrefix(v))) :
       ViewWrite(v, w)

SpecBuffer == InitBuffer /\ [][NextBuffer]_vars

\* ------------------------------------------------------------------------
\* The concurrency log on its own, called as the test "Only records writes
\* with conflicting reads" calls it: read, write and commit for two
\* transaction ids
\* ------------------------------------------------------------------------

\* the bounds of the test's read: every key under <<1>>
ScoreBounds == [NoArgs EXCEPT !.gt = Some(<<1>>), !.lte = Some(<<1, MAX>>)]

\* the bounds passed to read
LogBounds == {ScoreBounds, PointArgs(<<2>>), NoArgs}

LogRead(txId, bounds) ==
  /\ Step
  /\ log' = logRead(log, txId, bounds)
  /\ last' = [NoLast EXCEPT !.op = "log.read", !.tx = txId, !.args = bounds]
  /\ UNCHANGED <<storage, listeners, tx, views, query, hist, applied>>

\* a log that records every write
LogWriteAlways(txId, t) ==
  /\ Step
  /\ log' = Append(log, WriteEntry(txId, t))
  /\ last' = [NoLast EXCEPT !.op = "log.write", !.tx = txId, !.tuple = t]
  /\ UNCHANGED <<storage, listeners, tx, views, query, hist, applied>>

LogWrite(txId, t) ==
  /\ Step
  /\ log' = logWrite(log, txId, t)
  /\ last' = [NoLast EXCEPT !.op = "log.write", !.tx = txId, !.tuple = t]
  /\ UNCHANGED <<storage, listeners, tx, views, query, hist, applied>>

\* commit throws when a write of another id lies in a read of txId
LogCommit(txId) ==
  /\ Step
  /\ log' = IF logConflict(log, txId) THEN log ELSE logCommit(log, txId)
  /\ last' = [NoLast EXCEPT !.op = "log.commit", !.tx = txId,
                !.error = IF logConflict(log, txId)
                          THEN "ReadWriteConflictError" ELSE NoError]
  /\ UNCHANGED <<storage, listeners, tx, views, query, hist, applied>>

InitLog ==
  /\ storage = <<>>
  /\ log = <<>>
  /\ listeners = [i \in ListenerIds |-> NoListener]
  /\ tx = [t \in TxIds |-> NoTx]
  /\ views = {}
  /\ query = NoQuery
  /\ last = NoLast
  /\ hist = [t \in TxIds |-> NoHist]
  /\ applied = [k \in AllKeys |-> None]
  /\ steps = 1
  /\ pending = {}

NextLog ==
  \/ \E txId \in TxIds : \E bounds \in LogBounds : LogRead(txId, bounds)
  \/ \E txId \in TxIds : \E t \in AllKeys : LogWrite(txId, t)
  \/ \E txId \in TxIds : LogCommit(txId)

SpecLog == InitLog /\ [][NextLog]_vars

\* ------------------------------------------------------------------------
\* The asynchronous client with every call awaited before the next starts:
\* two transactions, one of the root client and one of the subspace <<1>>
\* ------------------------------------------------------------------------

InitAsync ==
  /\ storage \in StoredAtStart
  /\ log = <<>>
  /\ listeners = [i \in ListenerIds |-> NoListener]
  /\ tx = [t \in TxIds |-> IF t = 1 THEN NewTx(Empty) ELSE NewTx(<<1>>)]
  /\ views = {}
  /\ query = NoQuery
  /\ last = NoLast
  /\ hist = [t \in TxIds |-> NoHist]
  /\ applied = [k \in AllKeys |-> tvGet(storage, k)]
  /\ steps = 2
  /\ pending = {}

\* no call is suspended: the caller has awaited every call it made
Awaited == pending = {}

NextAwait ==
  \/ \E t \in OpenTx : \E args \in ReadArgs : Awaited /\ AsyncTxScan(t, args)
  \/ \E t \in OpenTx : \E k \in UserKeys(tx[t].subspacePrefix) :
       Awaited /\ AsyncTxGet(t, k)
  \/ \E t \in OpenTx : \E k \in UserKeys(tx[t].subspacePrefix) :
       Awaited /\ AsyncTxExists(t, k)
  \/ \E t \in OpenTx : \E k \in UserKeys(tx[t].subspacePrefix) :
       \E v \in Vals : Awaited /\ AsyncTxSet(t, k, v)
  \/ \E t \in OpenTx : \E k \in UserKeys(tx[t].subspacePrefix) :
       Awaited /\ AsyncTxRemove(t, k)
  \/ \E t \in OpenTx : \E w \in CommitBatches(tx[t].subspacePrefix) :
       Awaited /\ AsyncTxWrite(t, w)
  \/ \E t \in OpenTx : Awaited /\ AsyncTxCommit(t)
  \/ \E t \in OpenTx : Awaited /\ AsyncTxCancel(t)
  \/ \E P \in ClientPrefixes : \E args \in ReadArgs \cap ArgsFor(P) :
       Awaited /\ AsyncClientScan(P, args)
  \/ \E P \in ClientPrefixes : \E w \in CommitBatches(P) :
       Awaited /\ AsyncClientCommit(P, w)
  \/ \E p \in pending : EngineServes(p)
  \/ \E p \in pending : AsyncResumes(p)

SpecAwait == InitAsync /\ [][NextAwait]_vars

\* ------------------------------------------------------------------------
\* The asynchronous client with calls that are not awaited: one transaction
\* of the root client over a stored pair, and commits of another client; the
\* engine serves the suspended calls in any order and the calls resume in
\* any order
\* ------------------------------------------------------------------------

InitRace ==
  /\ storage = <<[key |-> <<1, 1>>, value |-> 1]>>
  /\ log = <<>>
  /\ listeners = [i \in ListenerIds |-> NoListener]
  /\ tx = [t \in TxIds |-> IF t = 1 THEN NewTx(Empty) ELSE NoTx]
  /\ views = {}
  /\ query = NoQuery
  /\ last = NoLast
  /\ hist = [t \in TxIds |-> NoHist]
  /\ applied = [k \in AllKeys |-> tvGet(storage, k)]
  /\ steps = 2
  /\ pending = {}

\* the key the calls are about
RaceKeys == {<<1, 1>>}

\* the batches the other client commits
RaceBatches ==
  {[set |-> <<[key |-> <<1, 1>>, value |-> 2]>>, remove |-> <<>>],
   [set |-> <<>>, remove |-> <<(<<1, 1>>)>>]}

NextRace ==
  \/ \E t \in OpenTx : AsyncTxScan(t, NoArgs)
  \/ \E t \in OpenTx : \E k \in RaceKeys : AsyncTxGet(t, k)
  \/ \E t \in OpenTx : \E k \in RaceKeys : AsyncTxExists(t, k)
  \/ \E t \in OpenTx : \E k \in RaceKeys : \E v \in Vals : AsyncTxSet(t, k, v)
  \/ \E t \in OpenTx : \E k \in RaceKeys : AsyncTxRemove(t, k)
  \/ \E t \in OpenTx : AsyncTxCommit(t)
  \/ \E t \in OpenTx : AsyncTxCancel(t)
  \/ \E w \in RaceBatches : AsyncClientCommit(Empty, w)
  \/ \E p \in pending : EngineServes(p)
  \/ \E p \in pending : AsyncResumes(p)

SpecRace == InitRace /\ [][NextRace]_vars

\* ------------------------------------------------------------------------
\* Every operation of two transactions of the root client on one key
\* ------------------------------------------------------------------------

\* the key the transactions read and write
LateKeys == {<<1, 1>>}

\* the batches handed to write
LateBatches ==
  {[set |-> <<[key |-> <<1, 1>>, value |-> 1]>>, remove |-> <<>>],
   [set |-> <<>>, remove |-> <<(<<1, 1>>)>>]}

NextLate ==
  \/ \E t \in OpenTx : TxScan(t, NoArgs)
  \/ \E t \in OpenTx : \E k \in LateKeys : TxGet(t, k)
  \/ \E t \in OpenTx : \E k \in LateKeys : TxExists(t, k)
  \/ \E t \in OpenTx : \E k \in LateKeys : TxSet(t, k, 1)
  \/ \E t \in OpenTx : \E k \in LateKeys : TxRemove(t, k)
  \/ \E t \in OpenTx : \E w \in LateBatches : TxWrite(t, w)
  \/ \E t \in OpenTx : TxCommit(t)
  \/ \E t \in OpenTx : TxCancel(t)

SpecLate == InitTx /\ [][NextLate]_vars

\* ------------------------------------------------------------------------
\* Commits that fail: two transactions of the root client, the first with a
\* set of <<2>> in its buffer, and commits made with the id of a third
\* transaction
\* ------------------------------------------------------------------------

InitFailed ==
  /\ storage = <<>>
  /\ log = <<>>
  /\ listeners = [i \in ListenerIds |-> NoListener]
  /\ tx = [t \in TxIds |->
             IF t = 1
             THEN [NewTx(Empty) EXCEPT
                     !.writes = TransactionSet(NoWrites, <<2>>, 1)]
             ELSE NewTx(Empty)]
  /\ views = {}
  /\ query = NoQuery
  /\ last = NoLast
  /\ hist = [t \in TxIds |->
               IF t = 1 THEN [NoHist EXCEPT !.buf[<<2>>] = <<"set", 1>>]
               ELSE NoHist]
  /\ applied = [k \in AllKeys |-> None]
  /\ steps = 0
  /\ pending = {}

\* the ranges the transactions read: everything, and the key <<2>>
FailedArgs == {NoArgs, PointArgs(<<2>>)}

\* the batch committed with the third id
FailedBatch == [set |-> <<[key |-> <<1>>, value |-> 1]>>, remove |-> <<>>]

NextFailed ==
  \/ \E t \in OpenTx : \E args \in FailedArgs : TxScan(t, args)
  \/ ClientCommit(Empty, FailedBatch, Some(ForeignTx))
  \/ \E t \in OpenTx : TxCommit(t)
  \/ \E t \in OpenTx : TxCancel(t)

SpecFailed == InitFailed /\ [][NextFailed]_vars

\* ------------------------------------------------------------------------
\* Commits of both clients and of their transactions over a stored pair, and
\* get and exists through the clients and the transactions; the behaviours
\* are one operation shorter than MaxSteps
\* ------------------------------------------------------------------------

InitStore ==
  /\ storage = <<[key |-> <<1, 1>>, value |-> 1]>>
  /\ log = <<>>
  /\ listeners = [i \in ListenerIds |-> NoListener]
  /\ tx = [t \in TxIds |-> IF t = 1 THEN NewTx(Empty) ELSE NewTx(<<1>>)]
  /\ views = {}
  /\ query = NoQuery
  /\ last = NoLast
  /\ hist = [t \in TxIds |-> NoHist]
  /\ applied = [k \in AllKeys |-> tvGet(storage, k)]
  /\ steps = 1
  /\ pending = {}

NextStore ==
  \/ \E P \in ClientPrefixes : \E w \in CommitBatches(P) :
       ClientCommit(P, w, None)
  \/ \E t \in OpenTx : \E k \in UserKeys(tx[t].subspacePrefix) :
       \E v \in Vals : TxSet(t, k, v)
  \/ \E t \in OpenTx : \E k \in UserKeys(tx[t].subspacePrefix) : TxRemove(t, k)
  \/ \E t \in OpenTx : TxCommit(t)
  \/ \E P \in ClientPrefixes : \E k \in UserKeys(P) : ClientGet(P, k)
  \/ \E P \in ClientPrefixes : \E k \in UserKeys(P) : ClientExists(P, k)
  \/ \E t \in OpenTx : \E k \in UserKeys(tx[t].subspacePrefix) : TxGet(t, k)
  \/ \E t \in OpenTx : \E k \in UserKeys(tx[t].subspacePrefix) : TxExists(t, k)

SpecStore == InitStore /\ [][NextStore]_vars

\* ------------------------------------------------------------------------
\* Properties
\* ------------------------------------------------------------------------

Conflict == "ReadWriteConflictError"

\* the last operation was a commit that reached the engine
Committing == last.op = "commit" /\ ~last.closedBefore

\* C1: when a transaction has scanned a range through the engine and another
\* transaction has afterwards committed a write to a key inside that range,
\* the commit of the first transaction throws ReadWriteConflictError, whatever
\* it has buffered itself
C1_StaleReadConflicts ==
  (Committing /\ last.invalidBefore) => last.error = Conflict

\* a commit with buffered writes of its own was rejected after another
\* transaction committed into a range it had read
C1_Witness ==
  /\ Committing /\ last.invalidBefore
  /\ last.error = Conflict
  /\ last.writes # NoWrites

\* C2: a commit that fails with ReadWriteConflictError applies none of its
\* writes to the storage and invokes no subscription callback: every scan
\* returns afterwards what it returned before
C2_FailedCommitChangesNothing ==
  [][(last'.op = "commit" /\ last'.error = Conflict) =>
       /\ \A id \in ListenerIds : last'.emits[id] = <<>>
       /\ \A P \in ClientPrefixes : \A args \in ArgsFor(P) :
            ClientScanResult(storage', P, args) =
              ClientScanResult(storage, P, args)]_vars

\* a commit with buffered writes failed while a subscription covered them
C2_Witness ==
  /\ last.op = "commit" /\ last.error = Conflict
  /\ last.writes # NoWrites
  /\ \E l \in Registered(listeners) :
       Touches(last.writes, {l.bounds})

\* C9: a transaction whose committed flag is true has had its buffered writes
\* applied to the storage by a successful engine commit
C9_CommittedMeansApplied ==
  \A t \in TxIds : tx[t].committed => hist[t].engineOk

\* what the storage holds for a key, as an optional
StorageHolds(k) ==
  LET at == {i \in 1..Len(storage) : storage[i].key = k}
  IN IF at = {} THEN None ELSE Some(storage[CHOOSE i \in at : TRUE].value)

\* what a read of key k returns to a reader whose last buffered operation on
\* the key is b
ExpectedGet(b, k) ==
  IF b = <<>> THEN StorageHolds(k)
  ELSE IF b[1] = "set" THEN Some(b[2]) ELSE None

\* what a scan through a client with prefix P returns when the storage holds
\* what the successful commits wrote
ExpectedScan(P, args) ==
  LET inside(k) == /\ applied[k] # None
                   /\ isTupleWithinBounds(k, normalizeSubspaceScanArgs(P, args))
      keys == SelectSeq(KeyOrder, inside)
  IN ApplyLimit([i \in 1..Len(keys) |->
                   [key |-> removePrefixFromTuple(P, keys[i]),
                    value |-> applied[keys[i]][1]]], args.limit)

\* C3: the storage holds exactly what the successful commits wrote, key by
\* key: the sets of a committed transaction and none of its removed keys,
\* and nothing of a canceled transaction; the scans and gets of the clients
\* return it, and so does the get of a transaction for a key it has not
\* buffered itself
C3_CommittedVisibleCanceledNot ==
  /\ \A k \in AllKeys : StorageHolds(k) = applied[k]
  /\ Len(storage) = Cardinality({k \in AllKeys : applied[k] # None})
  /\ last.op = "client.get" => last.result = applied[last.tuple]
  /\ last.op = "client.scan" =>
       last.result = ExpectedScan(last.prefix, last.args)
  /\ (last.op = "get" /\ ~last.closedBefore
        /\ hist[last.tx].buf[last.tuple] = <<>>) =>
       last.result = applied[last.tuple]

\* a transaction committed a set and the remove of a stored key, and a scan
\* of the client then returned the set pair and not the removed key
C3_Witness ==
  /\ last.op = "client.scan" /\ last.args = NoArgs /\ last.prefix = Empty
  /\ \E t \in TxIds :
       /\ hist[t].engineOk
       /\ \E k \in AllKeys : hist[t].buf[k] = <<"remove", 0>>
       /\ \E k \in AllKeys :
            /\ hist[t].buf[k] # <<>> /\ hist[t].buf[k][1] = "set"
            /\ \E i \in 1..Len(last.result) : last.result[i].key = k
  /\ Len(last.result) = 1

\* C5: in an active transaction get returns the most recently buffered value
\* of a key with a buffered set, undefined for a key with a buffered remove,
\* and otherwise what the storage holds; exists returns true, false and the
\* storage's answer in the same three cases
C5_ReadYourWrites ==
  /\ (last.op = "get" /\ ~last.closedBefore) =>
       /\ last.error = NoError
       /\ last.result = ExpectedGet(hist[last.tx].buf[last.tuple], last.tuple)
  /\ (last.op = "exists" /\ ~last.closedBefore) =>
       last.result =
         <<ExpectedGet(hist[last.tx].buf[last.tuple], last.tuple) # None>>

\* a get of a key the storage holds returned undefined because the
\* transaction has buffered its remove
C5_Witness ==
  /\ last.op = "get" /\ ~last.closedBefore
  /\ hist[last.tx].buf[last.tuple] = <<"remove", 0>>
  /\ StorageHolds(last.tuple) # None
  /\ last.result = None

\* the last operation was a commit the engine accepted
Committed ==
  /\ last.op \in {"commit", "client.commit"}
  /\ ~last.closedBefore /\ last.error = NoError

\* the batch restricted to the keys inside the bounds
Restrict(w, b) ==
  [set |-> SelectSeq(w.set, LAMBDA p : isTupleWithinBounds(p.key, b)),
   remove |-> SelectSeq(w.remove, LAMBDA t : isTupleWithinBounds(t, b))]

\* the bounds of a subscription, as the storage sees them
BoundsOf(l) == normalizeSubspaceScanArgs(l.subspacePrefix, l.args)

\* C4: for a successful commit of a batch W and every subscription registered
\* at that moment with bounds B, the callback is invoked exactly once with W
\* restricted to the keys inside B when a key of W lies within B, and is not
\* invoked when none does
C4_CallbackGetsRestrictedBatch ==
  Committed =>
    \A id \in ListenerIds :
      last.emits[id] =
        IF /\ listeners[id].state = "on"
           /\ Restrict(last.writes, BoundsOf(listeners[id])) # NoWrites
        THEN <<removePrefixFromWrites(
                 listeners[id].subspacePrefix,
                 Restrict(last.writes, BoundsOf(listeners[id])))>>
        ELSE <<>>

\* a batch with a set and a remove was committed and a subscription received
\* one of the two only, the other key being outside its bounds
C4_Witness ==
  /\ Committed
  /\ last.writes.set # <<>> /\ last.writes.remove # <<>>
  /\ \E id \in ListenerIds :
       /\ listeners[id].state = "on"
       /\ Len(last.emits[id]) = 1
       /\ Restrict(last.writes, BoundsOf(listeners[id])) # last.writes

\* the last operation was a scan of an active transaction, called on the
\* transaction itself
Scanned == last.op = "scan" /\ ~last.closedBefore /\ ~last.view

\* C6: scan(args) of a transaction returns what a plain scan with the same
\* arguments returns on the storage to which the buffered writes have been
\* applied
C6_ScanIsScanOfApplied ==
  Scanned =>
    last.result =
      ClientScanResult(storageCommit(storage, tx[last.tx].writes),
                       tx[last.tx].subspacePrefix, last.args)

\* C7: scan(args) of a transaction with limit L returns at most L pairs
C7_ScanHonorsLimit ==
  (Scanned /\ IsSome(last.args.limit)) =>
    Len(last.result) <= last.args.limit[1]

\* the operations of a transaction
TxOps == {"commit", "cancel", "set", "remove", "write", "scan", "get",
          "exists", "subspace"}

\* C8: a transaction is never both committed and canceled, it never leaves
\* committed or canceled, and every operation on a committed or canceled
\* transaction, called on it or on one of its subspace views, throws, makes
\* no engine call and leaves the buffer unchanged
C8_ClosedIsTerminal ==
  [][\A t \in TxIds :
       /\ ~(tx'[t].committed /\ tx'[t].canceled)
       /\ tx[t].committed => tx'[t].committed
       /\ tx[t].canceled => tx'[t].canceled
       /\ (tx[t].open /\ IsClosed(t) /\ last'.tx = t /\ last'.op \in TxOps) =>
            /\ last'.error # NoError
            /\ last'.engineCalls = 0
            /\ tx'[t].writes = tx[t].writes]_vars

\* every attempt of the query so far ended in a conflict, and the call is over
AllConflicted ==
  query.pc = "done" /\ query.attempts > 0 /\ query.conflicts = query.attempts

\* C10: a transactional query configured with N retries and called with a
\* client invokes the user function at most N times and opens at most N
\* transactions, and when every attempt ends in a conflict the call throws
\* ReadWriteConflictError
C10_AtMostNAttempts ==
  /\ query.calls <= Retries
  /\ query.attempts <= Retries
  /\ AllConflicted => query.outcome = "ReadWriteConflictError"

\* C10: a transactional query configured with N retries and called with a
\* client invokes the user function at most N + 1 times and opens at most
\* N + 1 transactions, the call is over once N + 1 attempts ended in a
\* conflict, and when every attempt ends in a conflict the call throws
\* ReadWriteConflictError
C10_AtMostNPlusOneAttempts ==
  /\ query.calls <= Retries + 1
  /\ query.attempts <= Retries + 1
  /\ query.conflicts <= Retries + 1
  /\ query.conflicts = Retries + 1 => query.pc = "done"
  /\ AllConflicted => query.outcome = "ReadWriteConflictError"

\* every one of the N + 1 attempts ended in a conflict, the last one at its
\* commit, and the call threw
C10_Witness ==
  /\ AllConflicted
  /\ query.attempts = Retries + 1
  /\ query.calls = Retries + 1
  /\ last.op = "commit"
  /\ last.error = "ReadWriteConflictError"
  /\ query.outcome = "ReadWriteConflictError"

\* C11: when the user function or the commit of an attempt throws an error
\* that is no ReadWriteConflictError, the call ends on that attempt with
\* that error, and once the call has ended the user function is not invoked
\* and no transaction is opened
C11_OtherErrorsRethrown ==
  [][/\ query'.thrown \notin {NoError, "ReadWriteConflictError"} =>
          query'.pc = "done" /\ query'.outcome = query'.thrown
     /\ query.pc = "done" =>
          query'.calls = query.calls /\ query'.attempts = query.attempts]_vars

\* the step in which the user function of the running attempt throws
FnThrew == query.pc = "fn" /\ query'.pc # "fn" /\ last'.op = "cancel"

\* C12: when the user function throws, the engine's cancel is called for
\* the transaction of the attempt and releases its log entries, nothing of
\* the attempt is committed, and the error the caller receives is the one
\* the user function threw
C12_ThrowCancelsAttempt ==
  [][FnThrew =>
       /\ last'.engineCalls = 1
       /\ \A i \in 1..Len(log') : log'[i].txId # query.tx
       /\ ~hist'[query.tx].engineOk
       /\ query'.pc = "done" => query'.outcome = query'.thrown]_vars

\* C13: a transactional query called with a transaction calls the user
\* function once and opens no transaction, the call itself changes neither
\* the transaction nor the storage nor the log, the storage changes only at a
\* successful commit, and that commit applies every write buffered by the
\* caller and by the user function
C13_ComposesWithTransaction ==
  [][/\ query' # query =>
          tx' = tx /\ storage' = storage /\ log' = log /\ hist' = hist
     /\ query'.pc \in {"fnTx", "done"} =>
          query'.calls = 1 /\ query'.attempts = 0
     /\ storage' # storage => last'.op = "commit" /\ last'.error = NoError
     /\ (last'.op = "commit" /\ ~last'.closedBefore /\ last'.error = NoError) =>
          \A k \in AllKeys :
            tvGet(storage', k) = ExpectedGet(hist[last'.tx].buf[k], k)]_vars

\* the caller has committed the transaction after the call returned, and the
\* storage holds a value set by the caller and one set by the user function
C13_Witness ==
  /\ query.pc = "done" /\ query.outcome = "returned"
  /\ last.op = "commit" /\ last.tx = query.tx /\ last.error = NoError
  /\ \E i, j \in 1..Len(storage) :
       storage[i].value = 1 /\ storage[j].value = 2

\* the tuples of up to two elements
Tuples2 ==
  {<<>>} \cup {<<a>> : a \in MIN..MAX} \cup {<<a, b>> : a, b \in MIN..MAX}

\* no tuple lies within a range read by t and a range read by u
DisjointReads(t, u) ==
  \A a \in hist[t].ranges : \A b \in hist[u].ranges :
    \A k \in Tuples2 :
      ~(isTupleWithinBounds(k, a) /\ isTupleWithinBounds(k, b))

\* no key written by u lies within a range read by t
WritesOutsideReads(u, t) ==
  \A k \in AllKeys : \A a \in hist[t].ranges :
    hist[u].buf[k] # <<>> => ~isTupleWithinBounds(k, a)

\* C14: the commit of a transaction succeeds when the ranges it has read
\* are disjoint from the ranges the other transactions have read
C14_DisjointReadsCommit ==
  (Committing /\ \A u \in TxIds \ {last.tx} : DisjointReads(last.tx, u)) =>
    last.error = NoError

\* C14: the commit of a transaction succeeds when the ranges it has read
\* are disjoint from the ranges the other transactions have read and no
\* other transaction has written a key within a range it has read
C14_DisjointReadsAndWritesCommit ==
  (/\ Committing
   /\ \A u \in TxIds \ {last.tx} :
        DisjointReads(last.tx, u) /\ WritesOutsideReads(u, last.tx)) =>
    last.error = NoError

\* two transactions have read disjoint ranges, the one that committed first
\* has written outside the range of the other, and the other commits
C14_Witness ==
  /\ Committing /\ last.error = NoError
  /\ \A t \in {1, 2} : hist[t].ranges # {} /\ tx[t].committed
  /\ \E u \in {1, 2} \ {last.tx} : \E k \in AllKeys : hist[u].buf[k] # <<>>
  /\ \A u \in TxIds \ {last.tx} :
       DisjointReads(last.tx, u) /\ WritesOutsideReads(u, last.tx)

\* the pairs committed under P, each key without P
CommittedUnder(P) ==
  LET keys == SelectSeq(KeyOrder, LAMBDA k : /\ applied[k] # None
                                             /\ IsPrefixOf(P, k)
                                             /\ Len(k) > Len(P))
  IN [i \in 1..Len(keys) |->
        [key |-> SubSeq(keys[i], Len(P) + 1, Len(keys[i])),
         value |-> applied[keys[i]][1]]]

\* C15: after transactions of clients with prefix P have set (t, v) and
\* committed, the storage holds the pairs (P ++ t, v) and no other pair, a
\* get of t through a client with prefix P returns v, and a scan through it
\* returns the keys committed under P, each as t
C15_SubspaceSetStoresPrefixedKey ==
  /\ \A k \in AllKeys : StorageHolds(k) = applied[k]
  /\ Len(storage) = Cardinality({k \in AllKeys : applied[k] # None})
  /\ last.op = "client.get" => last.result = applied[last.tuple]
  /\ last.op = "client.scan" => last.result = CommittedUnder(last.prefix)

\* a transaction of the client with prefix <<1>> has set <<1>> and committed:
\* the storage holds the key <<1, 1>> alone, and the client gets the value
C15_Witness ==
  /\ last.op = "client.get" /\ last.prefix = <<1>> /\ last.tuple = <<1, 1>>
  /\ IsSome(last.result)
  /\ Len(storage) = 1 /\ storage[1].key = <<1, 1>>
  /\ storage[1].value = last.result[1]

\* every pair of the sequence is, with P prepended to its key, one of pairs
PairsUnder(P, result, pairs) ==
  \A i \in 1..Len(result) : \E j \in 1..Len(pairs) :
    /\ pairs[j].key = P \o result[i].key
    /\ pairs[j].value = result[i].value

\* every tuple of the sequence is, with P prepended, one of tuples
TuplesUnder(P, result, tuples) ==
  \A i \in 1..Len(result) : \E j \in 1..Len(tuples) :
    tuples[j] = P \o result[i]

HoldsBuffer(after, t) ==
  \A k \in AllKeys : tvGet(after, k) = ExpectedGet(hist[t].buf[k], k)

\* C17: a subspace view shares the buffer and the state of its transaction:
\* a get, through the transaction or a view, returns what was last buffered
\* for the full key through either; commit and cancel on a view commit and
\* cancel the transaction, with one engine call that carries every buffered
\* write; and subspace(Q) on a view with prefix P does what subspace(P ++ Q)
\* on the transaction does: it throws on a committed or canceled transaction
\* and returns a view with prefix P ++ Q otherwise
C17_ViewSharesParent ==
  [][/\ (last'.op = "get" /\ ~last'.closedBefore) =>
          last'.result =
            ExpectedGet(hist[last'.tx].buf[last'.tuple], last'.tuple)
     /\ (last'.op = "commit" /\ last'.view /\ ~last'.closedBefore) =>
          /\ tx'[last'.tx].committed
          /\ last'.engineCalls = 1
          /\ last'.error = NoError => HoldsBuffer(storage', last'.tx)
     /\ (last'.op = "cancel" /\ last'.view /\ ~last'.closedBefore) =>
          /\ tx'[last'.tx].canceled
          /\ last'.engineCalls = 1
          /\ storage' = storage
     /\ (last'.op = "subspace" /\ last'.view) =>
          IF IsClosed(last'.tx)
          THEN last'.error # NoError /\ views' = views
          ELSE /\ last'.error = NoError
               /\ [tx |-> last'.tx, subspacePrefix |-> last'.prefix] \in views']_vars

\* C18: once the handle of a subscription has been invoked, no later commit
\* hands a batch to its callback; invoking a handle does not throw and
\* changes no other subscription, and invoking it again changes nothing
C18_UnsubscribedGetsNothing ==
  [][/\ last'.op \in {"commit", "client.commit"} =>
          \A id \in ListenerIds :
            listeners[id].invoked => last'.emits[id] = <<>>
     /\ last'.op = "unsubscribe" =>
          /\ last'.error = NoError
          /\ \A j \in ListenerIds \ {last'.listener} :
               listeners'[j] = listeners[j]
     /\ (last'.op = "unsubscribe" /\ listeners[last'.listener].invoked) =>
          listeners' = listeners]_vars

\* a commit wrote inside the bounds of a subscription whose handle had been
\* invoked, and only the other subscription's callback was handed a batch
C18_Witness ==
  /\ Committed
  /\ \E id \in ListenerIds :
       /\ listeners[id].invoked
       /\ Restrict(last.writes, BoundsOf(listeners[id])) # NoWrites
       /\ last.emits[id] = <<>>
  /\ \E j \in ListenerIds : last.emits[j] # <<>>

\* the tuples are in the comparator's order, none twice
StrictlySorted(tuples) ==
  \A i, j \in 1..Len(tuples) : i < j => compareTuple(tuples[i], tuples[j]) < 0

\* C19: after any sequence of set, remove and write on a transaction and its
\* views, the set list and the remove list of the buffer are sorted by the
\* tuple comparator without duplicates and name no tuple in common; a tuple
\* whose last buffered operation is a set is in the set list only, once, with
\* that set's value; a tuple whose last buffered operation is a remove is in
\* the remove list only; a tuple never buffered is in neither
C19_BufferNamesTupleOnce ==
  \A t \in OpenTx :
    LET w == tx[t].writes
        inSet(k) == {i \in 1..Len(w.set) : w.set[i].key = k}
        inRemove(k) == {i \in 1..Len(w.remove) : w.remove[i] = k}
    IN /\ StrictlySorted(KeysOf(w.set))
       /\ StrictlySorted(w.remove)
       /\ \A k \in AllKeys :
            /\ Cardinality(inSet(k)) + Cardinality(inRemove(k)) <= 1
            /\ hist[t].buf[k] = <<>> => inSet(k) = {} /\ inRemove(k) = {}
            /\ (hist[t].buf[k] # <<>> /\ hist[t].buf[k][1] = "set") =>
                 /\ inRemove(k) = {}
                 /\ \E i \in inSet(k) : w.set[i].value = hist[t].buf[k][2]
            /\ (hist[t].buf[k] # <<>> /\ hist[t].buf[k][1] = "remove") =>
                 inSet(k) = {} /\ inRemove(k) # {}

\* a set through a view put its tuple in front of a tuple set earlier, while
\* the remove list holds a third tuple
C19_Witness ==
  /\ last.op = "set" /\ last.view /\ last.error = NoError
  /\ Len(tx[last.tx].writes.set) = 2
  /\ tx[last.tx].writes.set[1].key = last.tuple
  /\ Len(tx[last.tx].writes.remove) = 1

\* a read entry of the log covers the tuple
ReadCovers(l, t) ==
  \E i \in 1..Len(l) :
    l[i].type = "read" /\ isTupleWithinBounds(t, l[i].bounds)

\* C20: write(txId, tuple) appends one write entry of txId and the tuple
\* when the tuple lies within the bounds of a read entry the log holds at
\* that moment, and leaves the log unchanged when it lies within none; so
\* after read(tx1, R), write(tx1, t) with t outside R and write(tx2, t') with
\* t' inside R the log is the read of tx1 followed by the write of tx2
C20_OnlyConflictingWritesLogged ==
  [][/\ last'.op = "log.write" =>
          log' = IF ReadCovers(log, last'.tuple)
                 THEN log \o <<[txId |-> last'.tx, type |-> "write",
                                bounds |-> NoArgs, tuple |-> last'.tuple]>>
                 ELSE log
     /\ (/\ log = <<ReadEntry(1, ScoreBounds)>>
         /\ last.op = "log.write" /\ last.tx = 1 /\ last.tuple = <<2>>
         /\ last'.op = "log.write" /\ last'.tx = 2 /\ last'.tuple = <<1, 1>>) =>
          log' = <<ReadEntry(1, ScoreBounds), WriteEntry(2, <<1, 1>>)>>]_vars

\* the first transaction read every key under <<1>> and then wrote <<2>>,
\* and the log holds the read alone
C20_Witness ==
  /\ last.op = "log.write" /\ last.tx = 1 /\ last.tuple = <<2>>
  /\ log = <<ReadEntry(1, ScoreBounds)>>

\* what the synchronous commit of the batch leaves and throws, from the
\* storage and the log a
SyncCommitLeaves(a, writes, txId) ==
  /\ storage = engineCommitStorage(a.storage, a.log, writes, txId)
  /\ log = engineCommitLog(a.log, writes, txId)
  /\ last.error = IF engineConflict(a.log, writes, txId)
                  THEN "ReadWriteConflictError" ELSE NoError
  /\ last.emits = engineCommitEmits(Registered(listeners), a.log, writes, txId)

\* C21: every awaited call of the asynchronous client and transaction
\* returns and throws what the synchronous operation does from the state
\* the call started in, and leaves the transactions, their buffers, the log
\* and the storage as the synchronous operation does
C21_AsyncAsSync ==
  (last.async /\ last.op \notin {"call", "serve"}) =>
    LET a == last.at
        t == last.tx
        T == a.tx[t]
        fullTuple == prependPrefixToTuple(T.subspacePrefix, last.tuple)
        same == storage = a.storage /\ log = a.log /\ tx = a.tx
        read(args) == /\ storage = a.storage /\ tx = a.tx
                      /\ log = engineScanLog(a.log, args,
                                             TransactionScanTxId(t))
        buffers(w) == /\ storage = a.storage /\ log = a.log
                      /\ tx = [a.tx EXCEPT ![t].writes = w]
                      /\ last.error = NoError
    IN IF last.op = "client.scan"
       THEN /\ same /\ last.error = NoError
            /\ last.result = ClientScanResult(a.storage, last.prefix, last.args)
       ELSE IF last.op = "client.commit"
       THEN /\ tx = a.tx
            /\ SyncCommitLeaves(a, prependPrefixToWrites(last.prefix,
                                                         last.writes), None)
       ELSE IF checkActive(T) # NoError
       THEN same /\ last.error = checkActive(T)
       ELSE IF last.op = "scan"
       THEN /\ read(normalizeSubspaceScanArgs(T.subspacePrefix, last.args))
            /\ last.error = NoError
            /\ last.result = TransactionScan(a.storage, T, last.args)
       ELSE IF last.op = "get"
       THEN /\ IF TransactionReadsEngine(T, fullTuple)
               THEN read(PointArgs(fullTuple)) ELSE same
            /\ last.result = TransactionGet(a.storage, T, fullTuple)
            /\ last.error = TransactionGetError(a.storage, T, fullTuple)
       ELSE IF last.op = "exists"
       THEN /\ IF TransactionReadsEngine(T, fullTuple)
               THEN read(PointArgs(fullTuple)) ELSE same
            /\ last.result = <<TransactionExists(a.storage, T, fullTuple)>>
            /\ last.error = NoError
       ELSE IF last.op = "set"
       THEN buffers(TransactionSet(
                      T.writes,
                      TransactionSetTuple(T.subspacePrefix, last.tuple),
                      last.value))
       ELSE IF last.op = "remove"
       THEN buffers(TransactionRemove(T.writes, fullTuple))
       ELSE IF last.op = "write"
       THEN buffers(TransactionWrite(T.writes, T.subspacePrefix, last.writes))
       ELSE IF last.op = "commit"
       THEN /\ tx = [a.tx EXCEPT ![t].committed = TRUE]
            /\ SyncCommitLeaves(a, T.writes, Some(t))
       ELSE /\ last.op = "cancel"
            /\ tx = [a.tx EXCEPT ![t].canceled = TRUE]
            /\ storage = a.storage /\ log = logCancel(a.log, t)
            /\ last.error = NoError

\* an awaited scan of a transaction was served by the engine and returned a
\* stored pair together with a pair the transaction had buffered
C21_Witness ==
  /\ last.async /\ last.op = "scan" /\ last.args = NoArgs
  /\ pending = {}
  /\ Len(storage) = 1 /\ Len(last.result) = 2
  /\ log # <<>>

\* C22: a commit throws ReadWriteConflictError only when, since the
\* transaction read a range, the commit of another transaction has applied a
\* write inside it to the storage; the writes of a commit that failed and of
\* a canceled transaction make no other commit fail
C22_ConflictOnlyFromApplied ==
  (Committing /\ last.error = Conflict) => last.invalidBefore

\* the log holds a write of another transaction after a read of t whose
\* bounds contain it
WrittenAfterRead(l, t) ==
  \E i, j \in 1..Len(l) :
    /\ i < j
    /\ l[i].type = "read" /\ l[i].txId = t
    /\ l[j].type = "write" /\ l[j].txId # t
    /\ isTupleWithinBounds(l[j].tuple, l[i].bounds)

BufferKeys(w) ==
  {w.set[i].key : i \in 1..Len(w.set)} \cup {w.remove[i] : i \in 1..Len(w.remove)}

\* some read entry of t in the log l covers the key k
ReadByCovers(l, t, k) ==
  \E i \in 1..Len(l) :
    l[i].type = "read" /\ l[i].txId = t /\ isTupleWithinBounds(k, l[i].bounds)

Released ==
  last.op \in {"commit", "cancel"} /\ ~last.closedBefore

\* C25: after the engine's commit or cancel of a transaction has returned or
\* thrown, the log holds no read entry of that transaction
C25_LogReleasedAfterCommit ==
  Released =>
    \A i \in 1..Len(log) : ~(log[i].type = "read" /\ log[i].txId = last.tx)

\* the pairs hold every set of the batch and no key the batch removes
Reflects(pairs, w) ==
  /\ \A i \in 1..Len(w.set) : \E j \in 1..Len(pairs) : pairs[j] = w.set[i]
  /\ \A i \in 1..Len(w.remove) :
       \A j \in 1..Len(pairs) : pairs[j].key # w.remove[i]

\* a callback was invoked by the last operation
CallbackRan == \E id \in ListenerIds : last.emits[id] # <<>>

\* C26: the callbacks of a commit run after the batch has been applied: when
\* a callback runs, the storage holds every set of the batch and no key the
\* batch removes, and a scan through every client returns what it returns on
\* the storage the commit leaves; no callback runs for a commit that throws
\* ReadWriteConflictError
C26_CallbacksAfterStorage ==
  /\ (last.op \in {"commit", "client.commit"} /\ CallbackRan) =>
       /\ last.error = NoError
       /\ Reflects(last.served, last.writes)
       /\ \A P \in ClientPrefixes : \A args \in ArgsFor(P) :
            ClientScanResult(last.served, P, args) =
              ClientScanResult(storage, P, args)
  /\ (last.op \in {"commit", "client.commit"} /\ last.error = Conflict) =>
       ~CallbackRan

\* a batch with a set and a remove was committed, a callback was invoked
\* and the storage it ran on holds the pair the batch sets and nothing else
C26_Witness ==
  /\ last.op \in {"commit", "client.commit"} /\ CallbackRan
  /\ last.writes.set # <<>> /\ last.writes.remove # <<>>
  /\ Len(last.served) = 1 /\ last.served[1] = last.writes.set[1]

\* the error of a get whose single-point scan returns more than one pair
GetExpectsOne == "Get expects only one value."

\* C27: after any sequence of commits of the clients and of transactions the
\* storage holds at most one pair per key and a single-point scan returns at
\* most one pair; get never throws "Get expects only one value."; get through
\* a client, and through a transaction for a key it has not buffered, returns
\* undefined for an absent key and the stored value otherwise, and exists
\* returns false and true
C27_OnePairPerKey ==
  /\ \A i, j \in 1..Len(storage) : i # j => storage[i].key # storage[j].key
  /\ \A k \in AllKeys : Len(storageScan(storage, PointArgs(k))) <= 1
  /\ last.op \in {"get", "client.get"} => last.error # GetExpectsOne
  /\ last.op = "client.get" => last.result = applied[last.tuple]
  /\ last.op = "client.exists" => last.result = <<applied[last.tuple] # None>>
  /\ (last.op = "get" /\ last.engineCalls = 1) =>
       last.result = applied[last.tuple]
  /\ (last.op = "exists" /\ last.engineCalls = 1) =>
       last.result = <<applied[last.tuple] # None>>

\* the key <<1, 1>>, stored with the value 1 at the start, was set again with
\* another value, and a get through the client of the subspace returns that
\* value
C27_Witness ==
  /\ last.op = "client.get" /\ last.prefix = <<1>> /\ last.tuple = <<1, 1>>
  /\ last.result = Some(2) /\ last.error = NoError
  /\ Len(storage) = 1

\* C28: a scan, get or exists of the asynchronous transaction returns the
\* storage as it was when the engine served the read, united with the
\* writes the transaction has buffered when the read returns, whatever other
\* commits and whatever set and remove of the transaction itself happen while
\* the read is suspended
C28_ReadIsServedWithBuffer ==
  (last.async /\ last.op \in ReadOps /\ ~last.closedBefore) =>
    LET T == tx[last.tx]
        fullTuple == prependPrefixToTuple(T.subspacePrefix, last.tuple)
    IN IF last.op = "scan"
       THEN last.result = TransactionScan(last.served, T, last.args)
       ELSE IF last.op = "get"
       THEN last.result = TransactionGet(last.served, T, fullTuple)
       ELSE last.result = <<TransactionExists(last.served, T, fullTuple)>>

\* C29: conflicts are detected by commit only: no scan, get, exists, set,
\* remove, write or cancel throws ReadWriteConflictError, whatever other
\* transactions have committed since the transaction read
C29_ConflictAtCommitOnly ==
  last.error = Conflict => last.op \in {"commit", "client.commit"}

\* a transaction read a key through the engine, without an error, after
\* another transaction had committed a write into a range it had read before
C29_Witness ==
  /\ last.op \in {"get", "exists"} /\ last.engineCalls = 1
  /\ last.error = NoError
  /\ hist[last.tx].invalid

\* the commits and cancels of transaction t that are suspended
Closing(t) == {p \in pending : p.tx = t /\ p.op \in {"commit", "cancel"}}

\* C30: for one asynchronous transaction the engine serves at most one
\* commit or cancel in all, whatever commits and cancels are called
\* concurrently: a commit or cancel called on a transaction that is already
\* marked throws without reaching the engine, at most one commit or cancel of
\* a transaction is suspended, and the buffer the engine is served is the
\* buffer as it was when commit was called
C30_ClosedOnce ==
  /\ \A t \in TxIds : hist[t].closes <= 1
  /\ \A t \in TxIds :
       \A p, q \in Closing(t) : p = q /\ (~p.served => hist[t].closes = 0)
  /\ \A p \in pending :
       p.op = "commit" => tx[p.tx].writes = p.at.tx[p.tx].writes
  /\ (last.async /\ last.op \in {"commit", "cancel"} /\ last.closedBefore) =>
       last.engineCalls = 0 /\ last.error # NoError
  /\ (last.async /\ last.op = "commit" /\ ~last.closedBefore) =>
       last.writes = last.at.tx[last.tx].writes

\* a cancel called while the commit of the transaction, with a buffered
\* write, was suspended and not yet served has thrown
C30_Witness ==
  /\ last.async /\ last.op = "cancel" /\ last.closedBefore
  /\ last.error = "Transaction already committed"
  /\ \E p \in Closing(last.tx) :
       p.op = "commit" /\ ~p.served /\ tx[p.tx].writes # NoWrites

\* the step is a get or an exists of an active transaction
PointRead == last'.op \in {"get", "exists"} /\ ~last'.closedBefore

\* C31: get and exists of a tuple the transaction has buffered, as a set or
\* as a remove, make no engine call and leave the log as it is; get and
\* exists of a tuple it has not buffered, and every scan, make one engine
\* call that logs a read under the transaction's id; a commit of a
\* transaction that has read nothing through the engine does not throw
\* ReadWriteConflictError
C31_BufferedReadsNotLogged ==
  [][/\ (PointRead /\ hist[last'.tx].buf[last'.tuple] # <<>>) =>
          last'.engineCalls = 0 /\ log' = log
     /\ (PointRead /\ hist[last'.tx].buf[last'.tuple] = <<>>) =>
          /\ last'.engineCalls = 1
          /\ log' = Append(log, ReadEntry(last'.tx,
                                          log'[Len(log')].bounds))
          /\ isTupleWithinBounds(last'.tuple, log'[Len(log')].bounds)
     /\ (last'.op = "scan" /\ ~last'.closedBefore) =>
          /\ last'.engineCalls = 1
          /\ Len(log') = Len(log) + 1
          /\ log'[Len(log')].type = "read"
          /\ log'[Len(log')].txId = last'.tx
     /\ (last'.op = "commit" /\ ~last'.closedBefore
         /\ hist[last'.tx].ranges = {}) =>
          last'.error # Conflict]_vars

\* a transaction got a tuple it had buffered, after the other transaction
\* had committed a write of that tuple: the get made no engine call and the
\* log holds no entry of the transaction
C31_Witness ==
  /\ last.op = "get" /\ ~last.closedBefore /\ last.engineCalls = 0
  /\ hist[last.tx].buf[last.tuple] # <<>>
  /\ \E u \in TxIds : u # last.tx /\ hist[u].engineOk
                       /\ hist[u].buf[last.tuple] # <<>>
  /\ \A i \in 1..Len(log) : log[i].txId # last.tx

\* the call returns in this step: the commit of the running attempt succeeded
QueryReturns ==
  query.pc = "fn" /\ query'.pc = "done" /\ query'.outcome = "returned"

\* C32: every attempt of a transactional query runs on a transaction with an
\* id no transaction had before, an empty buffer and no entry in the log; an
\* attempt that ends in ReadWriteConflictError leaves the storage as it is
\* and nothing of it has been committed; when the call returns, the storage
\* is changed in that one step to hold what the last attempt buffered, no
\* other attempt has been committed, and the value returned is the one the
\* user function returned in the last attempt
C32_OneAttemptApplied ==
  [][/\ (query.pc = "retry" /\ query'.pc = "fn") =>
          /\ ~tx[query'.tx].open
          /\ tx'[query'.tx] = NewTx(query.prefix)
          /\ \A i \in 1..Len(log') : log'[i].txId # query'.tx
          /\ query.attempts > 0 => query'.tx # query.tx
     /\ (query'.conflicts = query.conflicts + 1) =>
          /\ storage' = storage
          /\ ~hist'[query.tx].engineOk
     /\ QueryReturns =>
          /\ \A k \in AllKeys :
               tvGet(storage', k) =
                 IF hist[query.tx].buf[k] = <<>> THEN tvGet(storage, k)
                 ELSE IF hist[query.tx].buf[k][1] = "set"
                      THEN Some(hist[query.tx].buf[k][2]) ELSE None
          /\ ~hist[query.tx].engineOk /\ hist'[query.tx].engineOk
          /\ \A t \in TxIds \ {query.tx} : ~hist'[t].engineOk
          /\ query'.result = FnResult(query'.attempts)]_vars

\* the first attempt buffered a write and ended in a conflict, the second
\* buffered a write and was committed, and the call returned its result
C32_Witness ==
  /\ query.pc = "done" /\ query.outcome = "returned"
  /\ query.attempts = 2 /\ query.conflicts = 1 /\ query.result = FnResult(2)
  /\ tx[1].writes # NoWrites /\ tx[2].writes # NoWrites
  /\ ~hist[1].engineOk /\ hist[2].engineOk
  /\ \E i \in 1..Len(storage) :
       \E j \in 1..Len(tx[2].writes.set) : storage[i] = tx[2].writes.set[j]

====
